---- MODULE Spec2Model ----
(***************************************************************************)
(* Render-batch accumulator of rlgl (src/rlgl.h), OpenGL 3.3 / ES2 path.   *)
(*                                                                         *)
(* The program state is the part of the static RLGL structure the batch    *)
(* code reads and writes: State.vertexCounter, currentBatch and the render *)
(* batches (draw-call ledger, draw counter, depth, buffer rotation).  The  *)
(* backend (pf* calls) is observed through gl, the list of flushes the     *)
(* last API call performed.                                                *)
(***************************************************************************)
EXTENDS Integers, Sequences, FiniteSets, TLC

\* ----------------------------------------------------------------- bounds
\* Texture ids the client passes to rlSetTexture are 0..MaxTextureId.
MaxTextureId == 2
\* rlEnd is called at most this many times between two flushes of a batch.
MaxDepthSteps == 1
\* Vertex counts the client passes to rlCheckRenderBatchLimit are
\* 0..MaxCheckCount.
MaxCheckCount == 2
\* Shader program ids the client passes to rlSetShader are 1..MaxShaderId.
MaxShaderId == 3
\* Blend factors the client passes to rlSetBlendFactors and
\* rlSetBlendFactorsSeparate are 0..MaxBlendFactor.
MaxBlendFactor == 1
\* The client makes at most MaxMatrixOps calls that multiply or reset a
\* matrix, with translations and scale factors up to MaxFactor.
MaxMatrixOps == 2
MaxFactor == 2
MaxVertices == 2
MaxObjects == 4
MaxEvents == 2
MaxStale == 2

\* ------------------------------------------------------ program constants
KEY_NULL == 0
KEY_A == 65
KEY_ESCAPE == 256
KEY_LEFT == 263
Kesc == 27
Kleft == 61457

\* Entries of CORE.Input.Keyboard.keyPressedQueue (scaled down).
MAX_KEY_PRESSED_QUEUE == 2
RL_LINES == 1
RL_TRIANGLES == 4
RL_QUADS == 7
Modes == {RL_LINES, RL_TRIANGLES, RL_QUADS}

\* Build configuration (each is an #ifndef default of rlgl.h a build may
\* override): 2 quads per vertex buffer, 3 draw calls per batch, 1 buffer.
RL_DEFAULT_BATCH_BUFFER_ELEMENTS == 2
RL_DEFAULT_BATCH_BUFFERS == 1
RL_DEFAULT_BATCH_DRAWCALLS == 3

\* currentDepth is kept in units of 1/20000: -1.0f is -20000, rlEnd adds 1.
DepthBaseline == -20000
DepthIncrement == 1

\* Id rlLoadTexture returns for the 1x1 white texture created by rlglInit.
defaultTextureId == 1

\* Batch "pointers": 0 is &RLGL.defaultBatch, 1 a batch the client loaded
\* with rlLoadRenderBatch(ClientBuffers, ClientElements), NullBatch is NULL.
\* The program id of the default shader (rlLoadShaderDefault) and the blend
\* modes of rlBlendMode.
defaultShaderId == 1
RL_BLEND_ALPHA == 0
RL_BLEND_ADDITIVE == 1
RL_BLEND_MULTIPLIED == 2
RL_BLEND_ADD_COLORS == 3
RL_BLEND_SUBTRACT_COLORS == 4
RL_BLEND_ALPHA_PREMULTIPLY == 5
RL_BLEND_CUSTOM == 6
RL_BLEND_CUSTOM_SEPARATE == 7
BlendModes == RL_BLEND_ALPHA..RL_BLEND_CUSTOM_SEPARATE
\* Blend factors and equations of the backend (the values of RL_ZERO,
\* RL_ONE, RL_SRC_ALPHA, ... of rlgl.h).
PF_ZERO == 0
PF_ONE == 1
PF_SRC_ALPHA == 770
PF_ONE_MINUS_SRC_ALPHA == 771
PF_DST_COLOR == 774
PF_FUNC_ADD == 32774
PF_FUNC_SUBTRACT == 32778

\* Matrix modes, and the depth of the matrix stack (a build option, as the
\* batch sizes above).
RL_MODELVIEW == 5888
RL_PROJECTION == 5889
RL_MAX_MATRIX_STACK_SIZE == 2

DefaultBatch == 0
ClientBatch == 1
NullBatch == -1
ClientBuffers == RL_DEFAULT_BATCH_BUFFERS + 1
ClientElements == RL_DEFAULT_BATCH_BUFFER_ELEMENTS - 1

VARIABLES
    vertexCounter,  \* RLGL.State.vertexCounter
    currentBatch,   \* RLGL.currentBatch
    batch,          \* the render batches, by batch pointer
    gl,             \* flushes performed by the last API call, in order
    call,           \* the last API call: name, argument, result, index written
    pending,        \* mode of every vertex emitted since the last flush
    plain,          \* only rlBegin/rlVertex3f/rlEnd were called since the last flush
    offBoundary,    \* the client switched or flushed inside a primitive since the last flush
    quadRun,        \* bookkeeping of a run of quads emitted into an empty batch
    currentShaderId, \* RLGL.State.currentShaderId
    blend,          \* RLGL.State blend fields and the backend's blend state
    under,          \* shader and blend state every pending vertex was emitted under
    matrix,         \* RLGL.State matrix fields: mode, current matrix, matrices, stack
    shaders,        \* RLGL.State default shader ids and the backend's shader objects
    CORE            \* CORE.Window and CORE.Input.Keyboard, and the waiting events

vars == <<vertexCounter, currentBatch, batch, gl, call, pending, plain, offBoundary, quadRun,
          currentShaderId, blend, under, matrix, shaders, CORE>>

\* ------------------------------------------------------------ batch state
\* The blend fields of the zero-initialised RLGL.State, and the blend
\* function rlglInit sets in the backend (the equation is the one the
\* backend starts with).
rlglInitBlend ==
    [ currentBlendMode          |-> RL_BLEND_ALPHA,
      pfCustomBlendModeModified |-> FALSE,
      custom   |-> [src |-> 0, dst |-> 0, equation |-> 0],
      separate |-> [srcRGB |-> 0, dstRGB |-> 0, srcAlpha |-> 0, dstAlpha |-> 0,
                    eqRGB |-> 0, eqAlpha |-> 0],
      gpu      |-> [func |-> <<PF_SRC_ALPHA, PF_ONE_MINUS_SRC_ALPHA>>,
                    equation |-> <<PF_FUNC_ADD>>] ]

\* A Matrix is the function i |-> m_i, i in 0..15 (m12, m13, m14 hold the
\* translation).  Components are integers.
rlMatrixIdentity ==
    [i \in 0..15 |-> IF i \in {0, 5, 10, 15} THEN 1 ELSE 0]

\* result.m(4a+b) = sum over k of left.m(4a+k) * right.m(4k+b)
rlMatrixMultiply(left, right) ==
    [i \in 0..15 |->
        LET a == i \div 4
            b == i % 4
        IN left[4 * a] * right[b] + left[4 * a + 1] * right[4 + b]
             + left[4 * a + 2] * right[8 + b] + left[4 * a + 3] * right[12 + b]]

\* rlLoadRenderBatch: every draw call starts as an empty RL_QUADS call bound
\* to the default texture; drawCounter 1, depth at the baseline.
rlLoadRenderBatch(numBuffers, bufferElements) ==
    [ bufferCount   |-> numBuffers,
      currentBuffer |-> 0,
      vertexBuffer  |-> [i \in 0..(numBuffers - 1) |-> [elementCount |-> bufferElements]],
      draws         |-> [i \in 0..(RL_DEFAULT_BATCH_DRAWCALLS - 1) |->
                            [ mode            |-> RL_QUADS,
                              vertexCount     |-> 0,
                              vertexAlignment |-> 0,
                              textureId       |-> defaultTextureId ]],
      drawCounter   |-> 1,
      currentDepth  |-> DepthBaseline ]

\* The world threaded through the operators below: the program state plus
\* the observers the flush updates.
World ==
    [ vertexCounter |-> vertexCounter,
      currentBatch  |-> currentBatch,
      batch         |-> batch,
      gl            |-> <<>>,
      pending       |-> pending,
      plain         |-> plain,
      offBoundary   |-> offBoundary,
      index         |-> -1,
      currentShaderId |-> currentShaderId,
      blend         |-> blend,
      under         |-> under,
      matrix        |-> matrix ]

\* RLGL.currentBatch->draws[RLGL.currentBatch->drawCounter - 1]
OpenDraw(W) ==
    W.batch[W.currentBatch].draws[W.batch[W.currentBatch].drawCounter - 1]

\* RLGL.currentBatch->vertexBuffer[RLGL.currentBatch->currentBuffer].elementCount*4
BufferLimit(W) ==
    W.batch[W.currentBatch].vertexBuffer[W.batch[W.currentBatch].currentBuffer].elementCount * 4

\* The world with the open draw call replaced by d.
SetOpenDraw(W, d) ==
    [W EXCEPT !.batch[W.currentBatch].draws[W.batch[W.currentBatch].drawCounter - 1] = d]

\* ------------------------------------------------------------------ flush
\* vertexOffset of rlDrawRenderBatch's draw loop before draw call i.
RECURSIVE VertexOffset(_, _)
\* The index buffer rlLoadRenderBatch fills: six indices per quad.
Indices(j) ==
    LET k == j \div 6
        r == j % 6
    IN 4 * k + (IF r = 0 THEN 0 ELSE IF r = 1 THEN 1 ELSE IF r = 2 THEN 2
                ELSE IF r = 3 THEN 0 ELSE IF r = 4 THEN 2 ELSE 3)

VertexOffset(draws, i) ==
    IF i = 0 THEN 0
    ELSE VertexOffset(draws, i - 1) + (draws[i - 1].vertexCount + draws[i - 1].vertexAlignment)

\* The backend draw of ledger entry i: pfDrawArrays for RL_LINES and
\* RL_TRIANGLES, pfDrawElements with vertexCount/4*6 indices for RL_QUADS
\* (first is the index offset, vertexOffset/4*6, in indices).
\* Faulty variant of DrawCommand: the quads are drawn from the vertex
\* offset taken as an index offset.
DrawCommandUnscaled(draws, i) ==
    IF (draws[i].mode = RL_LINES) \/ (draws[i].mode = RL_TRIANGLES)
    THEN [ cmd       |-> "pfDrawArrays",
           mode      |-> draws[i].mode,
           first     |-> VertexOffset(draws, i),
           count     |-> draws[i].vertexCount,
           textureId |-> draws[i].textureId ]
    ELSE [ cmd       |-> "pfDrawElements",
           mode      |-> RL_TRIANGLES,
           first     |-> VertexOffset(draws, i),
           count     |-> (draws[i].vertexCount \div 4) * 6,
           textureId |-> draws[i].textureId ]

DrawCommand(draws, i) ==
    IF (draws[i].mode = RL_LINES) \/ (draws[i].mode = RL_TRIANGLES)
    THEN [ cmd       |-> "pfDrawArrays",
           mode      |-> draws[i].mode,
           first     |-> VertexOffset(draws, i),
           count     |-> draws[i].vertexCount,
           textureId |-> draws[i].textureId ]
    ELSE [ cmd       |-> "pfDrawElements",
           mode      |-> RL_TRIANGLES,
           first     |-> (VertexOffset(draws, i) \div 4) * 6,
           count     |-> (draws[i].vertexCount \div 4) * 6,
           textureId |-> draws[i].textureId ]

\* The eyes a flush draws for: two with stereo rendering, else one.
EyeCount(S) == IF S.stereoRender THEN 2 ELSE 1

\* The matrices in force while an eye is drawn: with stereo rendering the
\* modelview saved at the start of the flush multiplied by the eye's view
\* offset, and the eye's projection.
EyeMatrices(S, matModelView, eye) ==
    IF EyeCount(S) = 2
    THEN [S EXCEPT !.modelview = rlMatrixMultiply(matModelView, S.viewOffsetStereo[eye]),
                   !.projection = S.projectionStereo[eye]]
    ELSE S

\* The draws of the whole ledger, issued when the buffer holds vertices.
LedgerDraws(W, b) ==
    IF W.vertexCounter > 0
    THEN [i \in 1..W.batch[b].drawCounter |-> DrawCommand(W.batch[b].draws, i - 1)]
    ELSE <<>>

\* One pass of the eye loop: the eye (its half of the viewport), the
\* matrices the shader gets and the draws issued.
EyePass(W, b, eye) ==
    LET S == EyeMatrices(W.matrix, W.matrix.modelview, eye)
    IN [ eye        |-> eye,
         modelview  |-> S.modelview,
         projection |-> S.projection,
         draws      |-> LedgerDraws(W, b) ]

\* Faulty variant of FlushRecord: the draws are issued for an empty buffer
\* too.
FlushRecordDrawing(W, b) ==
    [ batch       |-> b,
      buffer      |-> W.batch[b].currentBuffer,
      upload      |-> W.vertexCounter,
      eyes        |-> [k \in 1..EyeCount(W.matrix) |-> EyePass(W, b, k - 1)],
      draws       |-> [i \in 1..W.batch[b].drawCounter |-> DrawCommand(W.batch[b].draws, i - 1)],
      ledger      |-> [i \in 1..W.batch[b].drawCounter |-> W.batch[b].draws[i - 1]],
      emitted     |-> W.pending,
      plain       |-> W.plain,
      offBoundary |-> W.offBoundary,
      shader      |-> W.currentShaderId,
      blend       |-> W.blend.gpu,
      under       |-> W.under ]

\* What one rlDrawRenderBatch hands to the backend: the uploaded prefix of
\* the vertex arrays (one upload), the passes of the eye loop and all their
\* draws in order, with the ledger as it stood and what the observers held
\* at that moment.
FlushRecord(W, b) ==
    [ batch       |-> b,
      buffer      |-> W.batch[b].currentBuffer,
      upload      |-> W.vertexCounter,
      eyes        |-> [k \in 1..EyeCount(W.matrix) |-> EyePass(W, b, k - 1)],
      draws       |-> IF EyeCount(W.matrix) = 2
                      THEN EyePass(W, b, 0).draws \o EyePass(W, b, 1).draws
                      ELSE EyePass(W, b, 0).draws,
      ledger      |-> [i \in 1..W.batch[b].drawCounter |-> W.batch[b].draws[i - 1]],
      emitted     |-> W.pending,
      plain       |-> W.plain,
      offBoundary |-> W.offBoundary,
      shader      |-> W.currentShaderId,
      blend       |-> W.blend.gpu,
      under       |-> W.under ]

\* Faulty variant of RestoreMatrices: the matrices of the last eye stay.
KeepEyeMatrices(S, matProjection, matModelView) ==
    S

\* The end of the flush: projection and modelview get the values saved
\* before the eye loop.
RestoreMatrices(S, matProjection, matModelView) ==
    [S EXCEPT !.projection = matProjection, !.modelview = matModelView]

\* Faulty variant of ResetDraws: the vertex counts survive the reset.
ResetDrawsKeepingCounts(draws) ==
    [i \in DOMAIN draws |->
        [draws[i] EXCEPT !.mode = RL_QUADS, !.textureId = defaultTextureId]]

\* The reset of the draws array: mode, vertexCount and textureId of every
\* slot; vertexAlignment is left as it is.
ResetDraws(draws) ==
    [i \in DOMAIN draws |->
        [draws[i] EXCEPT !.mode = RL_QUADS, !.vertexCount = 0, !.textureId = defaultTextureId]]

\* Faulty variant of NextBuffer: the batch stays on its buffer.
SameBuffer(B) ==
    B.currentBuffer

\* Round robin over the vertex buffers of a batch.
NextBuffer(B) ==
    IF B.currentBuffer + 1 >= B.bufferCount THEN 0 ELSE B.currentBuffer + 1

rlDrawRenderBatch(W, b) ==
    [W EXCEPT !.gl = Append(@, FlushRecord(W, b)),
              !.vertexCounter = 0,
              !.batch[b] = [@ EXCEPT !.currentDepth = DepthBaseline,
                                     !.draws = ResetDraws(@),
                                     !.drawCounter = 1,
                                     !.currentBuffer = NextBuffer(W.batch[b])],
              !.pending = <<>>,
              !.plain = TRUE,
              !.offBoundary = FALSE,
              !.under = {},
              !.matrix = RestoreMatrices(EyeMatrices(@, @.modelview, EyeCount(@) - 1),
                                         @.projection, @.modelview)]

\* Faulty variant of LimitReached: a strict comparison.
LimitPassed(W, vCount) ==
    (W.vertexCounter + vCount) > BufferLimit(W)

\* The overflow test of rlCheckRenderBatchLimit.
LimitReached(W, vCount) ==
    (W.vertexCounter + vCount) >= BufferLimit(W)

\* rlCheckRenderBatchLimit: on overflow, flush and restore the open call's
\* mode and texture.  The result is the world and the returned flag.
\* Faulty variant of rlCheckRenderBatchLimit: the open call is left as the
\* flush reset it.
rlCheckRenderBatchLimitReset(W, vCount) ==
    IF LimitReached(W, vCount)
    THEN [ W |-> rlDrawRenderBatch(W, W.currentBatch), overflow |-> TRUE ]
    ELSE [ W |-> W, overflow |-> FALSE ]

rlCheckRenderBatchLimit(W, vCount) ==
    IF LimitReached(W, vCount)
    THEN LET currentMode == OpenDraw(W).mode
             currentTexture == OpenDraw(W).textureId
             W1 == rlDrawRenderBatch(W, W.currentBatch)
         IN [ W |-> SetOpenDraw(W1, [OpenDraw(W1) EXCEPT !.mode = currentMode,
                                                         !.textureId = currentTexture]),
              overflow |-> TRUE ]
    ELSE [ W |-> W, overflow |-> FALSE ]

\* ------------------------------------------------- begin / vertex / end
\* vertexAlignment rlBegin stores when it closes a call of the given mode
\* holding vertexCount vertices.
\* Faulty variant of rlBeginAlignment: triangles are not padded.
rlBeginAlignmentShort(mode, vertexCount) ==
    IF mode = RL_LINES
    THEN (IF vertexCount < 4 THEN vertexCount ELSE vertexCount % 4)
    ELSE 0

rlBeginAlignment(mode, vertexCount) ==
    IF mode = RL_LINES
    THEN (IF vertexCount < 4 THEN vertexCount ELSE vertexCount % 4)
    ELSE IF mode = RL_TRIANGLES
         THEN (IF vertexCount < 4 THEN 1 ELSE (4 - (vertexCount % 4)))
         ELSE 0

\* Faulty variant of CloseDraw: the next ledger slot is never opened.
CloseDrawInPlace(W, alignment) ==
    LET Wa == SetOpenDraw(W, [OpenDraw(W) EXCEPT !.vertexAlignment = alignment])
        r  == rlCheckRenderBatchLimit(Wa, OpenDraw(Wa).vertexAlignment)
    IN IF ~r.overflow
       THEN [r.W EXCEPT !.vertexCounter = @ + OpenDraw(Wa).vertexAlignment]
       ELSE r.W

\* Closing the open call: store its alignment, then either flush (the limit
\* check overflows) or advance the cursor by the alignment and open the next
\* ledger slot.
\* Faulty variant of CloseDraw: the cursor is not advanced by the alignment.
CloseDrawUnaligned(W, alignment) ==
    LET Wa == SetOpenDraw(W, [OpenDraw(W) EXCEPT !.vertexAlignment = alignment])
        r  == rlCheckRenderBatchLimit(Wa, OpenDraw(Wa).vertexAlignment)
    IN IF ~r.overflow
       THEN [r.W EXCEPT !.batch[W.currentBatch].drawCounter = @ + 1]
       ELSE r.W

CloseDraw(W, alignment) ==
    LET Wa == SetOpenDraw(W, [OpenDraw(W) EXCEPT !.vertexAlignment = alignment])
        r  == rlCheckRenderBatchLimit(Wa, OpenDraw(Wa).vertexAlignment)
    IN IF ~r.overflow
       THEN [r.W EXCEPT !.vertexCounter = @ + OpenDraw(Wa).vertexAlignment,
                        !.batch[W.currentBatch].drawCounter = @ + 1]
       ELSE r.W

\* Faulty variant of LedgerLimit: the full ledger is reset without a flush.
LedgerLimitDropping(W) ==
    IF W.batch[W.currentBatch].drawCounter >= RL_DEFAULT_BATCH_DRAWCALLS
    THEN [W EXCEPT !.batch[W.currentBatch].draws = ResetDraws(@),
                   !.batch[W.currentBatch].drawCounter = 1]
    ELSE W

\* The ledger is full: flush.
LedgerLimit(W) ==
    IF W.batch[W.currentBatch].drawCounter >= RL_DEFAULT_BATCH_DRAWCALLS
    THEN rlDrawRenderBatch(W, W.currentBatch)
    ELSE W

\* Faulty variant of rlBegin: the new call keeps the texture of the open one.
rlBeginKeepingTexture(W, mode) ==
    IF OpenDraw(W).mode # mode
    THEN LET W1 == IF OpenDraw(W).vertexCount > 0
                   THEN CloseDraw(W, rlBeginAlignment(OpenDraw(W).mode, OpenDraw(W).vertexCount))
                   ELSE W
             W2 == LedgerLimit(W1)
         IN SetOpenDraw(W2, [OpenDraw(W2) EXCEPT !.mode = mode,
                                                 !.vertexCount = 0,
                                                 !.textureId = OpenDraw(W).textureId])
    ELSE W

rlBegin(W, mode) ==
    IF OpenDraw(W).mode # mode
    THEN LET W1 == IF OpenDraw(W).vertexCount > 0
                   THEN CloseDraw(W, rlBeginAlignment(OpenDraw(W).mode, OpenDraw(W).vertexCount))
                   ELSE W
             W2 == LedgerLimit(W1)
         IN SetOpenDraw(W2, [OpenDraw(W2) EXCEPT !.mode = mode,
                                                 !.vertexCount = 0,
                                                 !.textureId = defaultTextureId])
    ELSE W

\* Faulty variant of rlEnd: the depth advances by two increments.
rlEndTwice(W) ==
    [W EXCEPT !.batch[W.currentBatch].currentDepth = @ + 2 * DepthIncrement]

rlEnd(W) ==
    [W EXCEPT !.batch[W.currentBatch].currentDepth = @ + DepthIncrement]

\* Faulty variants of NearLimit: the test made only past the end of the
\* buffer, and the test made one vertex early.
PastLimit(W) ==
    W.vertexCounter > BufferLimit(W)

NearLimitEarly(W) ==
    W.vertexCounter >= (BufferLimit(W) - 4)

\* Faulty variant of NearLimit: the limit is checked at every primitive
\* boundary.
NearLimitAlways(W) ==
    W.vertexCounter >= 0

\* The cursor is within 4 vertices of the end of the buffer.
NearLimit(W) ==
    W.vertexCounter > (BufferLimit(W) - 4)

\* Faulty variants of BoundaryCheck: the check made inside a line, and the
\* check made inside a triangle.
BoundaryCheckInsideLine(d) ==
    IF d.mode = RL_LINES THEN 2 + 1
    ELSE IF (d.mode = RL_TRIANGLES) /\ (d.vertexCount % 3 = 0) THEN 3 + 1
    ELSE IF (d.mode = RL_QUADS) /\ (d.vertexCount % 4 = 0) THEN 4 + 1
    ELSE 0

BoundaryCheckInsideTriangle(d) ==
    IF (d.mode = RL_LINES) /\ (d.vertexCount % 2 = 0) THEN 2 + 1
    ELSE IF d.mode = RL_TRIANGLES THEN 3 + 1
    ELSE IF (d.mode = RL_QUADS) /\ (d.vertexCount % 4 = 0) THEN 4 + 1
    ELSE 0

\* The vertex count rlVertex3f passes to rlCheckRenderBatchLimit when the
\* open call stands at a primitive boundary of its mode; 0 when it does not
\* (no check is made).
BoundaryCheck(d) ==
    IF (d.mode = RL_LINES) /\ (d.vertexCount % 2 = 0) THEN 2 + 1
    ELSE IF (d.mode = RL_TRIANGLES) /\ (d.vertexCount % 3 = 0) THEN 3 + 1
    ELSE IF (d.mode = RL_QUADS) /\ (d.vertexCount % 4 = 0) THEN 4 + 1
    ELSE 0

\* rlVertex3f: near the limit and at a primitive boundary, check the limit
\* (which may flush); then write the vertex at the cursor and advance the
\* cursor and the open call's vertexCount.
rlVertex3f(W) ==
    LET W1 == IF NearLimit(W) /\ BoundaryCheck(OpenDraw(W)) > 0
              THEN rlCheckRenderBatchLimit(W, BoundaryCheck(OpenDraw(W))).W
              ELSE W
    IN [SetOpenDraw(W1, [OpenDraw(W1) EXCEPT !.vertexCount = @ + 1])
          EXCEPT !.index = W1.vertexCounter,
                 !.vertexCounter = @ + 1,
                 !.pending = Append(@, OpenDraw(W1).mode),
                 !.under = @ \cup {<<W1.currentShaderId, W1.blend.gpu>>}]

\* ---------------------------------------------------------------- texture
\* Faulty variant of rlSetTextureAlignment: triangles padded to the next
\* multiple of 4 whatever their count.
rlSetTextureAlignmentPadded(mode, vertexCount) ==
    IF mode = RL_LINES
    THEN (IF vertexCount < 4 THEN vertexCount ELSE vertexCount % 4)
    ELSE IF mode = RL_TRIANGLES
         THEN 4 - (vertexCount % 4)
         ELSE 0

\* vertexAlignment rlSetTexture stores when it closes a call.
rlSetTextureAlignment(mode, vertexCount) ==
    IF mode = RL_LINES
    THEN (IF vertexCount < 4 THEN vertexCount ELSE vertexCount % 4)
    ELSE IF mode = RL_TRIANGLES
         THEN (IF vertexCount < 4 THEN 1 ELSE (4 - (vertexCount % 4)))
         ELSE 0

\* Faulty variant of rlSetTexture: id 0 flushes only past the capacity.
rlSetTextureLate(W, id) ==
    IF id = 0
    THEN (IF W.vertexCounter > BufferLimit(W) THEN rlDrawRenderBatch(W, W.currentBatch) ELSE W)
    ELSE IF OpenDraw(W).textureId # id
         THEN LET W1 == IF OpenDraw(W).vertexCount > 0
                        THEN CloseDraw(W, rlSetTextureAlignment(OpenDraw(W).mode, OpenDraw(W).vertexCount))
                        ELSE W
                  W2 == LedgerLimit(W1)
              IN SetOpenDraw(W2, [OpenDraw(W2) EXCEPT !.textureId = id, !.vertexCount = 0])
         ELSE W

rlSetTexture(W, id) ==
    IF id = 0
    THEN (IF W.vertexCounter >= BufferLimit(W) THEN rlDrawRenderBatch(W, W.currentBatch) ELSE W)
    ELSE IF OpenDraw(W).textureId # id
         THEN LET W1 == IF OpenDraw(W).vertexCount > 0
                        THEN CloseDraw(W, rlSetTextureAlignment(OpenDraw(W).mode, OpenDraw(W).vertexCount))
                        ELSE W
                  W2 == LedgerLimit(W1)
              IN SetOpenDraw(W2, [OpenDraw(W2) EXCEPT !.textureId = id, !.vertexCount = 0])
         ELSE W

\* ------------------------------------------------------- batch management
\* Faulty variant of rlSetRenderBatchActive: the switch without the flush.
rlSetRenderBatchActiveUnflushed(W, b) ==
    [W EXCEPT !.currentBatch = IF b # NullBatch THEN b ELSE DefaultBatch]

\* rlSetRenderBatchActive: flush the active batch, then make b (the default
\* batch for a null pointer) the active one.
rlSetRenderBatchActive(W, b) ==
    [rlDrawRenderBatch(W, W.currentBatch)
        EXCEPT !.currentBatch = IF b # NullBatch THEN b ELSE DefaultBatch]

rlDrawRenderBatchActive(W) ==
    rlDrawRenderBatch(W, W.currentBatch)

\* ----------------------------------------------------------------- matrix
\* The matrix fields after rlglInit: the structure is zero-initialised
\* (currentMatrixMode 0, stackCounter 0, transformRequired false), rlglInit
\* fills the stack and the three matrices with the identity and points
\* currentMatrix at modelview.  before, ops and stored are observers: the
\* current matrix before the last rlPushMatrix (while nothing but the
\* matching rlPopMatrix followed), the number of calls that changed a matrix,
\* and the last position given to rlVertex3f with the position it wrote.
NoPush == [state |-> "none", value |-> rlMatrixIdentity]

rlglInitMatrix ==
    [ currentMatrixMode |-> 0,
      currentMatrix     |-> "modelview",
      modelview         |-> rlMatrixIdentity,
      projection        |-> rlMatrixIdentity,
      transform         |-> rlMatrixIdentity,
      transformRequired |-> FALSE,
      stack             |-> [i \in 0..(RL_MAX_MATRIX_STACK_SIZE - 1) |-> rlMatrixIdentity],
      stackCounter      |-> 0,
      stereoRender      |-> FALSE,
      projectionStereo  |-> [eye \in 0..1 |-> [i \in 0..15 |-> 0]],
      viewOffsetStereo  |-> [eye \in 0..1 |-> [i \in 0..15 |-> 0]],
      overflow          |-> FALSE,
      before            |-> NoPush,
      ops               |-> 0,
      stored            |-> [given |-> <<>>, written |-> <<>>] ]

\* *RLGL.State.currentMatrix, read and written.
Current(S) == S[S.currentMatrix]

SetCurrent(S, m) == [S EXCEPT ![S.currentMatrix] = m]

rlMatrixMode(S, mode) ==
    [S EXCEPT !.currentMatrix = IF mode = RL_PROJECTION THEN "projection"
                                ELSE IF mode = RL_MODELVIEW THEN "modelview"
                                ELSE @,
              !.currentMatrixMode = mode]

\* rlPushMatrix.  The overflow test only logs: in a full stack the store
\* goes to stack[RL_MAX_MATRIX_STACK_SIZE], outside the array and over the
\* fields that follow it in RLGL.State (stackCounter first), so the counter
\* the increment then reads is any value.
PushSelect(S) ==
    IF S.currentMatrixMode = RL_MODELVIEW
    THEN [S EXCEPT !.transformRequired = TRUE, !.currentMatrix = "transform"]
    ELSE S

rlPushMatrix(S, clobbered) ==
    LET S1 == PushSelect(S)
    IN IF S1.stackCounter < RL_MAX_MATRIX_STACK_SIZE
       THEN [S1 EXCEPT !.stack[S1.stackCounter] = Current(S1),
                       !.stackCounter = @ + 1]
       ELSE [S1 EXCEPT !.overflow = TRUE,
                       !.stackCounter = clobbered + 1]

\* Faulty variant of rlPopMatrix: the transform stays required when the
\* stack empties.
rlPopMatrixInSession(S) ==
    LET S1 == IF S.stackCounter > 0
              THEN [SetCurrent(S, S.stack[S.stackCounter - 1]) EXCEPT !.stackCounter = @ - 1]
              ELSE S
    IN IF (S1.stackCounter = 0) /\ (S1.currentMatrixMode = RL_MODELVIEW)
       THEN [S1 EXCEPT !.currentMatrix = "modelview"]
       ELSE S1

rlPopMatrix(S) ==
    LET S1 == IF S.stackCounter > 0
              THEN [SetCurrent(S, S.stack[S.stackCounter - 1]) EXCEPT !.stackCounter = @ - 1]
              ELSE S
    IN IF (S1.stackCounter = 0) /\ (S1.currentMatrixMode = RL_MODELVIEW)
       THEN [S1 EXCEPT !.currentMatrix = "modelview", !.transformRequired = FALSE]
       ELSE S1

rlLoadIdentity(S) == SetCurrent(S, rlMatrixIdentity)

rlEnableStereoRender(S) == [S EXCEPT !.stereoRender = TRUE]

rlDisableStereoRender(S) == [S EXCEPT !.stereoRender = FALSE]

rlSetMatrixModelview(S, view) == [S EXCEPT !.modelview = view]

rlSetMatrixProjection(S, projection) == [S EXCEPT !.projection = projection]

rlSetMatrixProjectionStereo(S, right, left) ==
    [S EXCEPT !.projectionStereo = [eye \in 0..1 |-> IF eye = 0 THEN right ELSE left]]

rlSetMatrixViewOffsetStereo(S, right, left) ==
    [S EXCEPT !.viewOffsetStereo = [eye \in 0..1 |-> IF eye = 0 THEN right ELSE left]]

\* The matrices the transformation calls build.  Angles are quarter turns
\* about a unit axis, given by their exact sine and cosine; frustum and
\* ortho bounds are chosen so that every quotient is an integer.
MatTranslation(x, y, z) ==
    [rlMatrixIdentity EXCEPT ![12] = x, ![13] = y, ![14] = z]

MatRotation(sinres, cosres, x, y, z) ==
    LET t == 1 - cosres
    IN [i \in 0..15 |->
          CASE i = 0  -> x * x * t + cosres
            [] i = 1  -> y * x * t + z * sinres
            [] i = 2  -> z * x * t - y * sinres
            [] i = 4  -> x * y * t - z * sinres
            [] i = 5  -> y * y * t + cosres
            [] i = 6  -> z * y * t + x * sinres
            [] i = 8  -> x * z * t + y * sinres
            [] i = 9  -> y * z * t - x * sinres
            [] i = 10 -> z * z * t + cosres
            [] i = 15 -> 1
            [] OTHER  -> 0]

MatScale(x, y, z) ==
    [rlMatrixIdentity EXCEPT ![0] = x, ![5] = y, ![10] = z]

MatFrustum(left, right, bottom, top, znear, zfar) ==
    LET rl == right - left
        tb == top - bottom
        fn == zfar - znear
    IN [i \in 0..15 |->
          CASE i = 0  -> (znear * 2) \div rl
            [] i = 5  -> (znear * 2) \div tb
            [] i = 8  -> (right + left) \div rl
            [] i = 9  -> (top + bottom) \div tb
            [] i = 10 -> 0 - ((zfar + znear) \div fn)
            [] i = 11 -> 0 - 1
            [] i = 14 -> 0 - ((zfar * znear * 2) \div fn)
            [] OTHER  -> 0]

MatOrtho(left, right, bottom, top, znear, zfar) ==
    LET rl == right - left
        tb == top - bottom
        fn == zfar - znear
    IN [i \in 0..15 |->
          CASE i = 0  -> 2 \div rl
            [] i = 5  -> 2 \div tb
            [] i = 10 -> 0 - (2 \div fn)
            [] i = 12 -> 0 - ((left + right) \div rl)
            [] i = 13 -> 0 - ((top + bottom) \div tb)
            [] i = 14 -> 0 - ((zfar + znear) \div fn)
            [] i = 15 -> 1
            [] OTHER  -> 0]

\* Mutant: a translation combined on the other side.
rlTranslatefPost(S, x, y, z) ==
    SetCurrent(S, rlMatrixMultiply(Current(S), MatTranslation(x, y, z)))

rlTranslatef(S, x, y, z) ==
    SetCurrent(S, rlMatrixMultiply(MatTranslation(x, y, z), Current(S)))

rlRotatef(S, sinres, cosres, x, y, z) ==
    SetCurrent(S, rlMatrixMultiply(MatRotation(sinres, cosres, x, y, z), Current(S)))

rlScalef(S, x, y, z) ==
    SetCurrent(S, rlMatrixMultiply(MatScale(x, y, z), Current(S)))

\* matf is the array i |-> matf[i]; the initializer lists it transposed, in
\* the order of the structure's fields, so that m_i = matf[i].
rlMultMatrixf(S, matf) ==
    SetCurrent(S, rlMatrixMultiply([i \in 0..15 |-> matf[i]], Current(S)))

rlFrustum(S, left, right, bottom, top, znear, zfar) ==
    SetCurrent(S, rlMatrixMultiply(Current(S), MatFrustum(left, right, bottom, top, znear, zfar)))

rlOrtho(S, left, right, bottom, top, znear, zfar) ==
    SetCurrent(S, rlMatrixMultiply(Current(S), MatOrtho(left, right, bottom, top, znear, zfar)))

\* The position rlVertex3f stores for (x, y, z): the transform matrix
\* applied when transformRequired is set.
TransformVertex(S, v) ==
    IF S.transformRequired
    THEN << S.transform[0] * v[1] + S.transform[4] * v[2] + S.transform[8] * v[3] + S.transform[12],
            S.transform[1] * v[1] + S.transform[5] * v[2] + S.transform[9] * v[3] + S.transform[13],
            S.transform[2] * v[1] + S.transform[6] * v[2] + S.transform[10] * v[3] + S.transform[14] >>
    ELSE v

\* ------------------------------------------------------------------ blend
\* The test of rlSetBlendMode: another mode, or a custom mode whose factors
\* were modified.
BlendSwitches(B, mode) ==
    \/ B.currentBlendMode # mode
    \/ /\ (mode = RL_BLEND_CUSTOM) \/ (mode = RL_BLEND_CUSTOM_SEPARATE)
       /\ B.pfCustomBlendModeModified

\* The backend's blend state after the pfBlendFunc/pfBlendEquation calls
\* rlSetBlendMode makes for the mode; other modes make no call.
BlendState(B, mode) ==
    CASE mode = RL_BLEND_ALPHA ->
            [func |-> <<PF_SRC_ALPHA, PF_ONE_MINUS_SRC_ALPHA>>, equation |-> <<PF_FUNC_ADD>>]
      [] mode = RL_BLEND_ADDITIVE ->
            [func |-> <<PF_SRC_ALPHA, PF_ONE>>, equation |-> <<PF_FUNC_ADD>>]
      [] mode = RL_BLEND_MULTIPLIED ->
            [func |-> <<PF_DST_COLOR, PF_ONE_MINUS_SRC_ALPHA>>, equation |-> <<PF_FUNC_ADD>>]
      [] mode = RL_BLEND_ADD_COLORS ->
            [func |-> <<PF_ONE, PF_ONE>>, equation |-> <<PF_FUNC_ADD>>]
      [] mode = RL_BLEND_SUBTRACT_COLORS ->
            [func |-> <<PF_ONE, PF_ONE>>, equation |-> <<PF_FUNC_SUBTRACT>>]
      [] mode = RL_BLEND_ALPHA_PREMULTIPLY ->
            [func |-> <<PF_ONE, PF_ONE_MINUS_SRC_ALPHA>>, equation |-> <<PF_FUNC_ADD>>]
      [] mode = RL_BLEND_CUSTOM ->
            [func |-> <<B.custom.src, B.custom.dst>>, equation |-> <<B.custom.equation>>]
      [] mode = RL_BLEND_CUSTOM_SEPARATE ->
            [func |-> <<B.separate.srcRGB, B.separate.dstRGB,
                        B.separate.srcAlpha, B.separate.dstAlpha>>,
             equation |-> <<B.separate.eqRGB, B.separate.eqAlpha>>]
      [] OTHER -> B.gpu

\* Faulty variant of rlSetBlendMode: the blend state changed without the
\* flush.
rlSetBlendModeUnflushed(W, mode) ==
    IF BlendSwitches(W.blend, mode)
    THEN [W EXCEPT !.blend = [@ EXCEPT !.gpu = BlendState(W.blend, mode),
                                       !.currentBlendMode = mode,
                                       !.pfCustomBlendModeModified = FALSE]]
    ELSE W

\* rlSetBlendMode: on a switch, flush the current batch, set the backend's
\* blend state, record the mode and clear the modified flag.
rlSetBlendMode(W, mode) ==
    IF BlendSwitches(W.blend, mode)
    THEN [rlDrawRenderBatch(W, W.currentBatch)
             EXCEPT !.blend = [@ EXCEPT !.gpu = BlendState(W.blend, mode),
                                        !.currentBlendMode = mode,
                                        !.pfCustomBlendModeModified = FALSE]]
    ELSE W

rlSetBlendFactors(W, pfSrcFactor, pfDstFactor, pfEquation) ==
    IF W.blend.custom # [src |-> pfSrcFactor, dst |-> pfDstFactor, equation |-> pfEquation]
    THEN [W EXCEPT !.blend.custom = [src |-> pfSrcFactor, dst |-> pfDstFactor,
                                     equation |-> pfEquation],
                   !.blend.pfCustomBlendModeModified = TRUE]
    ELSE W

rlSetBlendFactorsSeparate(W, pfSrcRGB, pfDstRGB, pfSrcAlpha, pfDstAlpha, pfEqRGB, pfEqAlpha) ==
    IF W.blend.separate # [srcRGB |-> pfSrcRGB, dstRGB |-> pfDstRGB, srcAlpha |-> pfSrcAlpha,
                           dstAlpha |-> pfDstAlpha, eqRGB |-> pfEqRGB, eqAlpha |-> pfEqAlpha]
    THEN [W EXCEPT !.blend.separate = [srcRGB |-> pfSrcRGB, dstRGB |-> pfDstRGB,
                                       srcAlpha |-> pfSrcAlpha, dstAlpha |-> pfDstAlpha,
                                       eqRGB |-> pfEqRGB, eqAlpha |-> pfEqAlpha],
                   !.blend.pfCustomBlendModeModified = TRUE]
    ELSE W

\* ----------------------------------------------------------------- shader
\* Faulty variants of rlSetShader: the swap without the flush, and the
\* flush without the swap.
rlSetShaderUnflushed(W, id) ==
    IF W.currentShaderId # id
    THEN [W EXCEPT !.currentShaderId = id]
    ELSE W

rlSetShaderUnswapped(W, id) ==
    IF W.currentShaderId # id
    THEN rlDrawRenderBatch(W, W.currentBatch)
    ELSE W

\* rlSetShader: with another id than the current one, flush the current
\* batch, then make id the current shader.
rlSetShader(W, id) ==
    IF W.currentShaderId # id
    THEN [rlDrawRenderBatch(W, W.currentBatch) EXCEPT !.currentShaderId = id]
    ELSE W

\* ---------------------------------------------------------- shader loading
\* The shader objects of the backend and the default shader of RLGL.State.
\* stages holds the live shader objects with their compile status, programs
\* the live program objects; nextShader and nextProgram are the names the
\* backend hands out next (never 0).  shader and program are the values the
\* last rlCompileShader and rlLoadShaderProgram returned, warnings counts the
\* RL_LOG_WARNING lines of the last call, last is the last rlLoadShaderCode
\* call.
NoLoad == [vsCode |-> "none", fsCode |-> "none", linkable |-> FALSE, id |-> 0, linked |-> FALSE]

NoShaders ==
    [ defaultVShaderId |-> 0,
      defaultFShaderId |-> 0,
      defaultShaderId  |-> 0,
      stages           |-> {},
      programs         |-> {},
      nextShader       |-> 1,
      nextProgram      |-> 1,
      shader           |-> 0,
      program          |-> 0,
      warnings         |-> 0,
      last             |-> NoLoad ]

\* What a client or rlgl hands to the backend as a shader source: code that
\* compiles, code that does not, and code for which the backend creates no
\* shader object; "absent" is the NULL pointer of rlLoadShaderCode.
Codes == {"compiles", "fails", "refused"}
Sources == Codes \cup {"absent"}

\* rlCompileShader: the name of the new shader object, whatever its compile
\* status; a failure is logged only.
rlCompileShader(L, code) ==
    IF code = "refused"
    THEN [L EXCEPT !.shader = 0, !.warnings = @ + 1]
    ELSE [L EXCEPT !.shader = L.nextShader,
                   !.nextShader = @ + 1,
                   !.stages = @ \cup {[id |-> L.nextShader, compiled |-> (code = "compiles")]},
                   !.warnings = IF code = "fails" THEN @ + 1 ELSE @]

\* PF_LINK_STATUS after pfLinkProgram: a program links only when both
\* attached shader objects are compiled and the backend accepts the pair.
LinkStatus(L, vShaderId, fShaderId, linkable) ==
    /\ linkable
    /\ [id |-> vShaderId, compiled |-> TRUE] \in L.stages
    /\ [id |-> fShaderId, compiled |-> TRUE] \in L.stages

\* rlLoadShaderProgram: the name of the linked program, or 0 after deleting
\* the program that did not link.
rlLoadShaderProgram(L, vShaderId, fShaderId, linkable) ==
    LET L1 == [L EXCEPT !.nextProgram = @ + 1]
    IN IF LinkStatus(L, vShaderId, fShaderId, linkable)
       THEN [L1 EXCEPT !.program = L.nextProgram, !.programs = @ \cup {L.nextProgram}]
       ELSE [L1 EXCEPT !.program = 0, !.warnings = @ + 1]

\* rlLoadShaderDefault: the default stages are kept, the default program id
\* is 0 when the default program did not load.
rlLoadShaderDefault(L, vsCode, fsCode, linkable) ==
    LET L1 == rlCompileShader(L, vsCode)
        L2 == rlCompileShader(L1, fsCode)
        L3 == rlLoadShaderProgram(L2, L1.shader, L2.shader, linkable)
    IN [L3 EXCEPT !.defaultVShaderId = L1.shader,
                  !.defaultFShaderId = L2.shader,
                  !.defaultShaderId = L3.program,
                  !.warnings = IF L3.program > 0 THEN @ ELSE @ + 1]

\* pfDeleteShader of a stage that is not a default one.
DeleteStage(L, shaderId, defaultId) ==
    IF shaderId # defaultId
    THEN [L EXCEPT !.stages = {s \in @ : s.id # shaderId}]
    ELSE L

\* Faulty variant of rlLoadShaderCode: the result of rlLoadShaderProgram is
\* returned as it is.
rlLoadShaderCodeRaising(L, vsCode, fsCode, linkable) ==
    LET L1 == IF vsCode # "absent" THEN rlCompileShader(L, vsCode) ELSE [L EXCEPT !.shader = 0]
        vertexShaderId == IF L1.shader = 0 THEN L.defaultVShaderId ELSE L1.shader
        L2 == IF fsCode # "absent" THEN rlCompileShader(L1, fsCode) ELSE [L1 EXCEPT !.shader = 0]
        fragmentShaderId == IF L2.shader = 0 THEN L.defaultFShaderId ELSE L2.shader
    IN IF (vertexShaderId = L.defaultVShaderId) /\ (fragmentShaderId = L.defaultFShaderId)
       THEN [L2 EXCEPT !.last = [vsCode |-> vsCode, fsCode |-> fsCode, linkable |-> linkable,
                                 id |-> L.defaultShaderId, linked |-> FALSE]]
       ELSE LET L3 == rlLoadShaderProgram(L2, vertexShaderId, fragmentShaderId, linkable)
                L4 == DeleteStage(L3, vertexShaderId, L.defaultVShaderId)
                L5 == DeleteStage(L4, fragmentShaderId, L.defaultFShaderId)
            IN [L5 EXCEPT !.last = [vsCode |-> vsCode, fsCode |-> fsCode,
                                    linkable |-> linkable,
                                    id |-> L3.program, linked |-> TRUE]]

\* rlLoadShaderCode: the id it returns is last.id; linked tells whether it
\* went through rlLoadShaderProgram.
rlLoadShaderCode(L, vsCode, fsCode, linkable) ==
    LET L1 == IF vsCode # "absent" THEN rlCompileShader(L, vsCode) ELSE [L EXCEPT !.shader = 0]
        vertexShaderId == IF L1.shader = 0 THEN L.defaultVShaderId ELSE L1.shader
        L2 == IF fsCode # "absent" THEN rlCompileShader(L1, fsCode) ELSE [L1 EXCEPT !.shader = 0]
        fragmentShaderId == IF L2.shader = 0 THEN L.defaultFShaderId ELSE L2.shader
    IN IF (vertexShaderId = L.defaultVShaderId) /\ (fragmentShaderId = L.defaultFShaderId)
       THEN [L2 EXCEPT !.last = [vsCode |-> vsCode, fsCode |-> fsCode, linkable |-> linkable,
                                 id |-> L.defaultShaderId, linked |-> FALSE]]
       ELSE LET L3 == rlLoadShaderProgram(L2, vertexShaderId, fragmentShaderId, linkable)
                L4 == DeleteStage(L3, vertexShaderId, L.defaultVShaderId)
                L5 == DeleteStage(L4, fragmentShaderId, L.defaultFShaderId)
            IN [L5 EXCEPT !.warnings = IF L3.program = 0 THEN @ + 1 ELSE @,
                          !.last = [vsCode |-> vsCode, fsCode |-> fsCode,
                                    linkable |-> linkable,
                                    id |-> IF L3.program = 0 THEN L.defaultShaderId
                                           ELSE L3.program,
                                    linked |-> TRUE]]

\* rlUnloadShaderProgram: the program object is deleted.
rlUnloadShaderProgram(L, id) == [L EXCEPT !.programs = @ \ {id}]

\* The shader table after a rlglInit whose default shader loaded.
DefaultLoaded == rlLoadShaderDefault(NoShaders, "compiles", "compiles", TRUE)

\* ----------------------------------------------------------------- window
\* The keys the model follows, the characters the keyboard delivers for
\* them (a lower and an upper case letter, escape, cursor left), and the
\* events waiting to be read: mouse events and keyboard events.
Keys == {KEY_NULL, KEY_A, KEY_ESCAPE, KEY_LEFT}
Runes == {KEY_A, KEY_A + 32, Kesc, Kleft}
Events == {[kind |-> "mouse", kbdc |-> 0]} \cup {[kind |-> "keyboard", kbdc |-> c] : c \in Runes}

\* The fields of CORE before InitPlatform, with the exit key the core set;
\* events are the events the window system holds for the program.
CoreData(exitKey) ==
    [ ready            |-> FALSE,
      shouldClose      |-> FALSE,
      exitKey          |-> exitKey,
      currentKeyState  |-> [k \in Keys |-> 0],
      previousKeyState |-> [k \in Keys |-> 0],
      keyPressedQueueCount |-> 0,
      pastEnd          |-> FALSE,
      events           |-> <<>> ]

\* InitPlatform: the window is ready.
InitPlatform(C) == [C EXCEPT !.ready = TRUE]

\* WindowShouldClose.
WindowShouldClose(C) == IF C.ready THEN C.shouldClose ELSE TRUE

toupper(c) == IF c = KEY_A + 32 THEN KEY_A ELSE c

\* The key whose state a keyboard character sets (the switch on e.kbdc).
KeyOf(kbdc) ==
    IF kbdc = Kesc THEN KEY_ESCAPE
    ELSE IF kbdc = Kleft THEN KEY_LEFT
    ELSE kbdc

\* One turn of the event loop of PollInputEvents.
ReadEvent(C, e) ==
    IF e.kind = "keyboard"
    THEN LET C1 == [C EXCEPT !.currentKeyState[KeyOf(toupper(e.kbdc))] = 1,
                             !.pastEnd = @ \/ C.keyPressedQueueCount >= MAX_KEY_PRESSED_QUEUE,
                             !.keyPressedQueueCount = @ + 1]
         IN IF C1.currentKeyState[C1.exitKey] # 0
            THEN [C1 EXCEPT !.shouldClose = TRUE]
            ELSE C1
    ELSE C

RECURSIVE ReadEvents(_, _)
ReadEvents(C, events) ==
    IF events = <<>> THEN C
    ELSE ReadEvents(ReadEvent(C, Head(events)), Tail(events))

\* Faulty variant of PollInputEvents: the close request is reset with the
\* key states.
PollInputEventsClearing(C) ==
    ReadEvents([C EXCEPT !.keyPressedQueueCount = 0,
                         !.previousKeyState = C.currentKeyState,
                         !.currentKeyState = [k \in Keys |-> 0],
                         !.shouldClose = FALSE,
                         !.events = <<>>],
               C.events)

\* PollInputEvents: the key states move to the previous ones, every waiting
\* event is read.
PollInputEvents(C) ==
    ReadEvents([C EXCEPT !.keyPressedQueueCount = 0,
                         !.previousKeyState = C.currentKeyState,
                         !.currentKeyState = [k \in Keys |-> 0],
                         !.events = <<>>],
               C.events)

\* -------------------------------------------------------------- observers
\* Vertices per primitive of a mode.
PrimitiveSize(mode) ==
    IF mode = RL_LINES THEN 2 ELSE IF mode = RL_TRIANGLES THEN 3 ELSE 4

\* The draw call holds complete primitives only.
AtBoundary(d) == d.vertexCount % PrimitiveSize(d.mode) = 0

\* Vertices a backend draw covers: pfDrawArrays count vertices,
\* pfDrawElements 4 vertices for every 6 indices.
SubmittedVertices(c) ==
    IF c.cmd = "pfDrawArrays" THEN c.count ELSE (c.count \div 6) * 4

RECURSIVE DrawnVertices(_)
DrawnVertices(cmds) ==
    IF cmds = <<>> THEN 0
    ELSE SubmittedVertices(Head(cmds)) + DrawnVertices(Tail(cmds))

RECURSIVE FlushedVertices(_)
FlushedVertices(flushes) ==
    IF flushes = <<>> THEN 0
    ELSE DrawnVertices(Head(flushes).draws) + FlushedVertices(Tail(flushes))

\* A run of quads: it starts in an empty batch (after rlglInit or a flush
\* the client asked for), goes on while the client only picks the texture
\* before the first vertex and then calls rlBegin(RL_QUADS), rlVertex3f and
\* rlEnd, and is closed by rlDrawRenderBatchActive.  emitted counts the
\* rlVertex3f calls, forced the flushes made by them, submitted the vertices
\* drawn by all flushes of the run.
FreshRun == [valid |-> TRUE, emitted |-> 0, forced |-> 0, submitted |-> 0, closed |-> FALSE]
NoRun == [valid |-> FALSE, emitted |-> 0, forced |-> 0, submitted |-> 0, closed |-> FALSE]
CurrentRun == IF quadRun.closed THEN FreshRun ELSE quadRun

Observe(W, c, q, p) ==
    /\ vertexCounter' = W.vertexCounter
    /\ currentBatch' = W.currentBatch
    /\ batch' = W.batch
    /\ gl' = W.gl
    /\ pending' = W.pending
    /\ offBoundary' = W.offBoundary
    /\ plain' = p
    /\ call' = c
    /\ quadRun' = q
    /\ currentShaderId' = W.currentShaderId
    /\ blend' = W.blend
    /\ under' = W.under
    /\ matrix' = W.matrix
    /\ UNCHANGED <<shaders, CORE>>

\* ---------------------------------------------------------------- actions
\* The state after rlglInit, and after the client loaded the batches of ids
\* other than the default one.
InitRLGL(ids, L) ==
    /\ vertexCounter = 0
    /\ currentBatch = DefaultBatch
    /\ batch = [b \in ids |->
                  IF b = DefaultBatch
                  THEN rlLoadRenderBatch(RL_DEFAULT_BATCH_BUFFERS, RL_DEFAULT_BATCH_BUFFER_ELEMENTS)
                  ELSE rlLoadRenderBatch(ClientBuffers, ClientElements)]
    /\ gl = <<>>
    /\ call = [op |-> "rlglInit", arg |-> 0, ret |-> FALSE, index |-> -1]
    /\ pending = <<>>
    /\ plain = TRUE
    /\ offBoundary = FALSE
    /\ quadRun = FreshRun
    /\ currentShaderId = L.defaultShaderId
    /\ blend = rlglInitBlend
    /\ under = {}
    /\ matrix = rlglInitMatrix
    /\ shaders = L

\* rlglInit runs in a window that InitPlatform made ready.
InitBatches(ids) ==
    /\ InitRLGL(ids, DefaultLoaded)
    /\ CORE = InitPlatform(CoreData(KEY_ESCAPE))

Init == InitBatches({DefaultBatch})

Begin(mode) ==
    LET W0 == [World EXCEPT !.offBoundary =
                  @ \/ (OpenDraw(World).mode # mode /\ ~AtBoundary(OpenDraw(World)))]
        W1 == rlBegin(W0, mode)
    IN Observe(W1, [op |-> "rlBegin", arg |-> mode, ret |-> FALSE, index |-> -1],
               IF CurrentRun.valid /\ mode = RL_QUADS THEN CurrentRun ELSE NoRun,
               W1.plain)

End ==
    /\ batch[currentBatch].currentDepth < DepthBaseline + MaxDepthSteps * DepthIncrement
    /\ LET W1 == rlEnd(World)
       IN Observe(W1, [op |-> "rlEnd", arg |-> 0, ret |-> FALSE, index |-> -1],
                  CurrentRun, W1.plain)

Vertex ==
    LET W1 == rlVertex3f(World)
    IN Observe(W1, [op |-> "rlVertex3f", arg |-> 0, ret |-> FALSE, index |-> W1.index],
               IF /\ CurrentRun.valid
                  /\ OpenDraw(World).mode = RL_QUADS
                  /\ CurrentRun.emitted < 2 * BufferLimit(World)
               THEN [CurrentRun EXCEPT !.emitted = @ + 1,
                                       !.forced = @ + Len(W1.gl),
                                       !.submitted = @ + FlushedVertices(W1.gl)]
               ELSE NoRun,
               W1.plain)

SetTexture(id) ==
    LET W0 == [World EXCEPT !.offBoundary =
                  @ \/ /\ ~AtBoundary(OpenDraw(World))
                       /\ \/ id = 0 /\ World.vertexCounter >= BufferLimit(World)
                          \/ id # 0 /\ OpenDraw(World).textureId # id]
        W1 == rlSetTexture(W0, id)
    IN Observe(W1, [op |-> "rlSetTexture", arg |-> id, ret |-> FALSE, index |-> -1],
               IF CurrentRun.valid /\ CurrentRun.emitted = 0 /\ id # 0 THEN CurrentRun ELSE NoRun,
               FALSE)

CheckRenderBatchLimit(vCount) ==
    LET W0 == [World EXCEPT !.offBoundary =
                  @ \/ (LimitReached(World, vCount) /\ ~AtBoundary(OpenDraw(World)))]
        r  == rlCheckRenderBatchLimit(W0, vCount)
    IN Observe(r.W, [op |-> "rlCheckRenderBatchLimit", arg |-> vCount, ret |-> r.overflow, index |-> -1],
               NoRun, FALSE)

DrawRenderBatchActive ==
    LET W0 == [World EXCEPT !.offBoundary = @ \/ ~AtBoundary(OpenDraw(World))]
        W1 == rlDrawRenderBatchActive(W0)
    IN Observe(W1, [op |-> "rlDrawRenderBatchActive", arg |-> 0, ret |-> FALSE, index |-> -1],
               IF CurrentRun.valid
               THEN [CurrentRun EXCEPT !.submitted = @ + FlushedVertices(W1.gl), !.closed = TRUE]
               ELSE FreshRun,
               W1.plain)

SetRenderBatchActive(b) ==
    LET W0 == [World EXCEPT !.offBoundary = @ \/ ~AtBoundary(OpenDraw(World))]
        W1 == rlSetRenderBatchActive(W0, b)
    IN Observe(W1, [op |-> "rlSetRenderBatchActive", arg |-> b, ret |-> FALSE, index |-> -1],
               FreshRun, W1.plain)

\* The batch pointers the client can pass: NULL and the batches it loaded.
BatchPointers == {NullBatch} \cup (DOMAIN batch \ {DefaultBatch})

\* One renderer with its default batch; the client calls the whole
\* emission API.
Next ==
    \/ \E mode \in Modes : Begin(mode)
    \/ End
    \/ Vertex
    \/ \E id \in 0..MaxTextureId : SetTexture(id)
    \/ \E vCount \in 0..MaxCheckCount : CheckRenderBatchLimit(vCount)
    \/ DrawRenderBatchActive
    \/ \E b \in BatchPointers : SetRenderBatchActive(b)

Spec == Init /\ [][Next]_vars

\* The renderer and a second batch loaded by the client, which emits
\* vertices and switches between the two batches.
InitTwo == InitBatches({DefaultBatch, ClientBatch})

NextTwo ==
    \/ \E mode \in Modes : Begin(mode)
    \/ End
    \/ Vertex
    \/ DrawRenderBatchActive
    \/ \E b \in BatchPointers : SetRenderBatchActive(b)

SpecTwo == InitTwo /\ [][NextTwo]_vars

\* The renderer and a second batch; the client emits quads with textures
\* and flushes or switches batches at any point.
NextFlush ==
    \/ End
    \/ Vertex
    \/ \E id \in 0..MaxTextureId : SetTexture(id)
    \/ DrawRenderBatchActive
    \/ \E b \in BatchPointers : SetRenderBatchActive(b)

SpecFlush == InitTwo /\ [][NextFlush]_vars

\* The renderer with its default batch and a client that changes the
\* shader between the vertices it emits.
SetShader(id) ==
    LET W0 == [World EXCEPT !.offBoundary =
                  @ \/ (World.currentShaderId # id /\ ~AtBoundary(OpenDraw(World)))]
        W1 == rlSetShader(W0, id)
    IN Observe(W1, [op |-> "rlSetShader", arg |-> id, ret |-> FALSE, index |-> -1],
               IF W1.gl # <<>> THEN FreshRun ELSE CurrentRun,
               W1.plain)

ShaderIds == 1..MaxShaderId

NextShader ==
    \/ \E mode \in Modes : Begin(mode)
    \/ Vertex
    \/ DrawRenderBatchActive
    \/ \E id \in ShaderIds : SetShader(id)

SpecShader == Init /\ [][NextShader]_vars

\* The renderer with its default batch and a client that changes the blend
\* mode and the custom blend factors between the quads it emits.
SetBlendMode(mode) ==
    LET W0 == [World EXCEPT !.offBoundary =
                  @ \/ (BlendSwitches(World.blend, mode) /\ ~AtBoundary(OpenDraw(World)))]
        W1 == rlSetBlendMode(W0, mode)
    IN Observe(W1, [op |-> "rlSetBlendMode", arg |-> mode, ret |-> FALSE, index |-> -1],
               IF W1.gl # <<>> THEN FreshRun ELSE CurrentRun,
               W1.plain)

SetBlendFactors(src, dst) ==
    LET W1 == rlSetBlendFactors(World, src, dst, PF_FUNC_ADD)
    IN Observe(W1, [op |-> "rlSetBlendFactors", arg |-> src, ret |-> FALSE, index |-> -1],
               CurrentRun, W1.plain)

SetBlendFactorsSeparate(factor) ==
    LET W1 == rlSetBlendFactorsSeparate(World, factor, factor, factor, factor,
                                        PF_FUNC_ADD, PF_FUNC_ADD)
    IN Observe(W1, [op |-> "rlSetBlendFactorsSeparate", arg |-> factor, ret |-> FALSE, index |-> -1],
               CurrentRun, W1.plain)

BlendFactors == 0..MaxBlendFactor

\* The blend modes the client switches between.
ClientBlendModes ==
    {RL_BLEND_ALPHA, RL_BLEND_ADDITIVE, RL_BLEND_SUBTRACT_COLORS,
     RL_BLEND_CUSTOM, RL_BLEND_CUSTOM_SEPARATE}

NextBlend ==
    \/ Vertex
    \/ DrawRenderBatchActive
    \/ \E mode \in ClientBlendModes : SetBlendMode(mode)
    \/ \E src \in BlendFactors : \E dst \in BlendFactors : SetBlendFactors(src, dst)
    \/ \E factor \in BlendFactors : SetBlendFactorsSeparate(factor)

SpecBlend == Init /\ [][NextBlend]_vars

\* ---------------------------------------------------------- matrix calls
\* A call of the matrix API: the batch is left alone.  Once a push has
\* stored outside the stack the behaviour of the program is undefined, and
\* no further call is followed.
MatrixCall(S, op, arg) ==
    /\ ~matrix.overflow
    /\ matrix' = S
    /\ call' = [op |-> op, arg |-> arg, ret |-> FALSE, index |-> -1]
    /\ gl' = <<>>
    /\ UNCHANGED <<vertexCounter, currentBatch, batch, pending, plain, offBoundary,
                   quadRun, currentShaderId, blend, under, shaders, CORE>>

\* A call that multiplies or resets the current matrix.
Transformed(S) == [S EXCEPT !.before = NoPush, !.ops = @ + 1]

MatrixMode(mode) ==
    MatrixCall([rlMatrixMode(matrix, mode) EXCEPT !.before = NoPush], "rlMatrixMode", mode)

PushMatrix ==
    \E clobbered \in 0..RL_MAX_MATRIX_STACK_SIZE :
        MatrixCall([rlPushMatrix(matrix, clobbered) EXCEPT
                       !.before = [state |-> "pushed", value |-> Current(matrix)]],
                   "rlPushMatrix", matrix.stackCounter)

PopMatrix ==
    MatrixCall([rlPopMatrix(matrix) EXCEPT
                   !.before = IF @.state = "pushed" THEN [@ EXCEPT !.state = "popped"]
                              ELSE NoPush],
               "rlPopMatrix", matrix.stackCounter)

LoadIdentity ==
    /\ matrix.ops < MaxMatrixOps
    /\ MatrixCall(Transformed(rlLoadIdentity(matrix)), "rlLoadIdentity", 0)

Translate(x) ==
    /\ matrix.ops < MaxMatrixOps
    /\ MatrixCall(Transformed(rlTranslatef(matrix, x, 0, 0)), "rlTranslatef", x)

Rotate ==
    /\ matrix.ops < MaxMatrixOps
    /\ MatrixCall(Transformed(rlRotatef(matrix, 1, 0, 0, 0, 1)), "rlRotatef", 90)

Scale(x) ==
    /\ matrix.ops < MaxMatrixOps
    /\ MatrixCall(Transformed(rlScalef(matrix, x, x, x)), "rlScalef", x)

\* The client's matrix: a shear, x' = x + y.
Shear == [rlMatrixIdentity EXCEPT ![4] = 1]

MultMatrix ==
    /\ matrix.ops < MaxMatrixOps
    /\ MatrixCall(Transformed(rlMultMatrixf(matrix, Shear)), "rlMultMatrixf", 0)

Frustum ==
    /\ matrix.ops < MaxMatrixOps
    /\ MatrixCall(Transformed(rlFrustum(matrix, 0 - 1, 1, 0 - 1, 1, 1, 3)), "rlFrustum", 0)

Ortho ==
    /\ matrix.ops < MaxMatrixOps
    /\ MatrixCall(Transformed(rlOrtho(matrix, 0, 2, 0, 2, 0 - 1, 1)), "rlOrtho", 0)

MatrixModes == {RL_MODELVIEW, RL_PROJECTION}

\* The matrix stack: modes, pushes, pops, resets and translations.
NextMatrix ==
    \/ \E mode \in MatrixModes : MatrixMode(mode)
    \/ PushMatrix
    \/ PopMatrix
    \/ LoadIdentity
    \/ \E x \in 1..MaxFactor : Translate(x)

SpecMatrix == Init /\ [][NextMatrix]_vars

\* The transformations, on any of the three matrices.
NextTransform ==
    \/ \E mode \in MatrixModes : MatrixMode(mode)
    \/ PushMatrix
    \/ \E x \in 1..MaxFactor : Translate(x)
    \/ Rotate
    \/ \E x \in 2..MaxFactor : Scale(x)
    \/ MultMatrix
    \/ Frustum
    \/ Ortho

SpecTransform == Init /\ [][NextTransform]_vars

\* rlVertex3f(x, y, z) with the position observed: what the client gave and
\* what was written to the vertex buffer.
Vertex3f(v) ==
    /\ ~matrix.overflow
    /\ vertexCounter < MaxVertices
    /\ LET W1 == rlVertex3f(World)
           W2 == [W1 EXCEPT !.matrix.stored =
                                [given |-> v, written |-> TransformVertex(W1.matrix, v)]]
       IN Observe(W2, [op |-> "rlVertex3f", arg |-> 0, ret |-> FALSE, index |-> W1.index],
                  NoRun, W1.plain)

\* The positions the client gives.
Positions == { <<1, 2, 3>>, <<0, 1, 0>> }

\* Vertices emitted between the calls of the matrix stack.
NextSession ==
    \/ \E mode \in MatrixModes : MatrixMode(mode)
    \/ PushMatrix
    \/ PopMatrix
    \/ Translate(1)
    \/ \E v \in Positions : Vertex3f(v)

SpecSession == Init /\ [][NextSession]_vars

\* ---------------------------------------------------------- stereo calls
EnableStereoRender ==
    MatrixCall(rlEnableStereoRender(matrix), "rlEnableStereoRender", 0)

DisableStereoRender ==
    MatrixCall(rlDisableStereoRender(matrix), "rlDisableStereoRender", 0)

\* The matrices the client sets: for the eyes translations along x, to the
\* right for the right eye and to the left for the left eye; a scaling as
\* modelview and a translation along y as projection.
SetMatrixProjectionStereo(x) ==
    MatrixCall(rlSetMatrixProjectionStereo(matrix, MatTranslation(x, 0, 0),
                                           MatTranslation(0 - x, 0, 0)),
               "rlSetMatrixProjectionStereo", x)

SetMatrixViewOffsetStereo(x) ==
    MatrixCall(rlSetMatrixViewOffsetStereo(matrix, MatTranslation(x, 0, 0),
                                           MatTranslation(0 - x, 0, 0)),
               "rlSetMatrixViewOffsetStereo", x)

SetMatrixModelview(y) ==
    MatrixCall(rlSetMatrixModelview(matrix, MatScale(1 + y, 1 + y, 1 + y)), "rlSetMatrixModelview", y)

SetMatrixProjection(y) ==
    MatrixCall(rlSetMatrixProjection(matrix, MatTranslation(0, y, 0)), "rlSetMatrixProjection", y)

\* The renderer with its default batch, drawing with or without stereo
\* rendering; the client sets the modelview and projection matrices.
NextStereo ==
    \/ Vertex
    \/ DrawRenderBatchActive
    \/ EnableStereoRender
    \/ DisableStereoRender
    \/ \E x \in 1..MaxFactor : SetMatrixProjectionStereo(x)
    \/ \E x \in 1..MaxFactor : SetMatrixViewOffsetStereo(x)
    \/ \E y \in 1..MaxFactor : SetMatrixModelview(y)
    \/ \E y \in 1..MaxFactor : SetMatrixProjection(y)

SpecStereo == Init /\ [][NextStereo]_vars

\* ----------------------------------------------------- shader loading calls
\* A call of the shader loading API: batch and matrices are left alone.
ShaderCall(L, op) ==
    /\ shaders' = L
    /\ call' = [op |-> op, arg |-> 0, ret |-> FALSE, index |-> -1]
    /\ gl' = <<>>
    /\ UNCHANGED <<vertexCounter, currentBatch, batch, pending, plain, offBoundary,
                   quadRun, currentShaderId, blend, under, matrix, CORE>>

LoadShaderCode(vsCode, fsCode, linkable) ==
    /\ shaders.nextShader + 1 <= MaxObjects
    /\ shaders.nextProgram <= MaxObjects
    /\ ShaderCall(rlLoadShaderCode([shaders EXCEPT !.warnings = 0], vsCode, fsCode, linkable),
                  "rlLoadShaderCode")

\* The client unloads a program it loaded (not the default one).
UnloadShaderProgram(id) ==
    /\ id \in shaders.programs \ {shaders.defaultShaderId}
    /\ ShaderCall(rlUnloadShaderProgram([shaders EXCEPT !.warnings = 0], id),
                  "rlUnloadShaderProgram")

\* rlglInit with every outcome of loading the default shader.
InitLoad ==
    \E vsCode \in Codes, fsCode \in Codes, linkable \in BOOLEAN :
        /\ InitRLGL({DefaultBatch}, rlLoadShaderDefault(NoShaders, vsCode, fsCode, linkable))
        /\ CORE = InitPlatform(CoreData(KEY_ESCAPE))

NextLoad ==
    \/ \E vsCode \in Sources, fsCode \in Sources, linkable \in BOOLEAN :
          LoadShaderCode(vsCode, fsCode, linkable)
    \/ \E id \in 1..MaxObjects : UnloadShaderProgram(id)

SpecLoad == InitLoad /\ [][NextLoad]_vars

\* ------------------------------------------------------------ window calls
\* A call of the platform layer: rlgl is left alone.  Once a poll has
\* stored outside the key queue the behaviour of the program is undefined,
\* and no further call is followed.
CoreCall(C, op, ret) ==
    /\ ~CORE.pastEnd
    /\ CORE' = C
    /\ call' = [op |-> op, arg |-> 0, ret |-> ret, index |-> -1]
    /\ gl' = <<>>
    /\ UNCHANGED <<vertexCounter, currentBatch, batch, pending, plain, offBoundary,
                   quadRun, currentShaderId, blend, under, matrix, shaders>>

InitPlatformCall ==
    /\ ~CORE.ready
    /\ CoreCall(InitPlatform(CORE), "InitPlatform", FALSE)

\* The window system queues an event for the program (no call of the
\* program: call names the step).
Arrive(e) ==
    /\ CORE.ready
    /\ Len(CORE.events) < MaxEvents
    /\ CoreCall([CORE EXCEPT !.events = Append(@, e)], "event", FALSE)

PollInputEventsCall ==
    /\ CORE.ready
    /\ CoreCall(PollInputEvents(CORE), "PollInputEvents", FALSE)

WindowShouldCloseCall ==
    CoreCall(CORE, "WindowShouldClose", WindowShouldClose(CORE))

\* The program before InitPlatform, with any exit key.
InitCore ==
    \E exitKey \in Keys :
        /\ InitRLGL({DefaultBatch}, DefaultLoaded)
        /\ CORE = CoreData(exitKey)

NextCore ==
    \/ InitPlatformCall
    \/ \E e \in Events : Arrive(e)
    \/ PollInputEventsCall
    \/ WindowShouldCloseCall

SpecCore == InitCore /\ [][NextCore]_vars

\* Keys pressed faster than the program polls: up to one keyboard event more
\* than the key queue has entries waits for the next poll.
KeyArrives(c) ==
    /\ CORE.ready
    /\ Len(CORE.events) <= MAX_KEY_PRESSED_QUEUE
    /\ CoreCall([CORE EXCEPT !.events = Append(@, [kind |-> "keyboard", kbdc |-> c])],
                "event", FALSE)

NextQueue ==
    \/ InitPlatformCall
    \/ \E c \in Runes : KeyArrives(c)
    \/ PollInputEventsCall

SpecQueue == InitCore /\ [][NextQueue]_vars

\* ------------------------------------------------------ any batch flushed
\* rlLoadRenderBatch as a call of the running program: the batch it returns
\* is stored as batch b, and every buffer it fills sets the vertex cursor of
\* the renderer to 0 (the statement that ends its first loop).
rlLoadRenderBatchAs(W, b, numBuffers, bufferElements) ==
    [W EXCEPT !.batch = [x \in DOMAIN W.batch \cup {b} |->
                            IF x = b THEN rlLoadRenderBatch(numBuffers, bufferElements)
                            ELSE W.batch[x]],
              !.vertexCounter = IF numBuffers > 0 THEN 0 ELSE @]

\* The client loads its batch, once.
LoadRenderBatch ==
    /\ ClientBatch \notin DOMAIN batch
    /\ Observe(rlLoadRenderBatchAs(World, ClientBatch, ClientBuffers, ClientElements),
               [op |-> "rlLoadRenderBatch", arg |-> ClientBatch, ret |-> FALSE, index |-> -1],
               NoRun, plain)

\* rlDrawRenderBatch(batch), with any loaded batch.  The vertices the ledger
\* of the active batch counts beyond the cursor are capped at MaxStale.
DrawRenderBatch(b) ==
    /\ b # currentBatch => OpenDraw(World).vertexCount - vertexCounter < MaxStale
    /\ LET W0 == [World EXCEPT !.offBoundary = @ \/ ~AtBoundary(OpenDraw(World))]
           W1 == rlDrawRenderBatch(W0, b)
       IN Observe(W1, [op |-> "rlDrawRenderBatch", arg |-> b, ret |-> FALSE, index |-> -1],
                  NoRun, W1.plain)

\* The client loads a second batch, emits vertices, switches between the
\* batches and flushes either of them.
NextOther ==
    \/ LoadRenderBatch
    \/ Vertex
    \/ DrawRenderBatchActive
    \/ \E b \in DOMAIN batch : DrawRenderBatch(b)
    \/ \E b \in BatchPointers : SetRenderBatchActive(b)

SpecOther == Init /\ [][NextOther]_vars

\* ------------------------------------------------------------------ claims
\* The open draw call and the buffer limit of the current state.
Open == OpenDraw(World)
Limit == BufferLimit(World)
Ledger == batch[currentBatch].draws
DrawCounter == batch[currentBatch].drawCounter

\* C1: no rlVertex3f call writes vertex data at an index at or past
\* 4*elementCount of the current buffer; the cursor never passes the limit,
\* and a vertex written by a call that flushed is written at index 0, after
\* the flush.
C1_NoWritePastBuffer ==
    /\ vertexCounter <= Limit
    /\ call.op = "rlVertex3f" =>
          /\ call.index >= 0
          /\ call.index < Limit
          /\ vertexCounter = call.index + 1
          /\ gl # <<>> => call.index = 0

\* C1 witness: the buffer was full, rlVertex3f flushed all of it and wrote
\* its vertex at index 0.
C1_Witness ==
    /\ call.op = "rlVertex3f"
    /\ Len(gl) = 1
    /\ gl[1].upload = Limit
    /\ call.index = 0

\* The primitive mode the client's vertices of a backend draw were emitted
\* under: quads are drawn as indexed triangles.
DrawnMode(c) == IF c.cmd = "pfDrawElements" THEN RL_QUADS ELSE c.mode

\* The mode of every vertex the draws cover, draw by draw, in order.
RECURSIVE DrawnModes(_)
DrawnModes(cmds) ==
    IF cmds = <<>> THEN <<>>
    ELSE [i \in 1..SubmittedVertices(Head(cmds)) |-> DrawnMode(Head(cmds))]
            \o DrawnModes(Tail(cmds))

\* A flush submits exactly the vertices emitted since the previous flush,
\* split over the draws in the order their calls were opened.
SubmitsAllEmitted(f) ==
    /\ DrawnVertices(f.draws) = Len(f.emitted)
    /\ DrawnModes(f.draws) = f.emitted

QuadsComplete(f) ==
    \A i \in 1..Len(f.ledger) :
        f.ledger[i].mode = RL_QUADS => f.ledger[i].vertexCount % 4 = 0

\* C2 as stated: after any sequence of rlBegin/rlVertex3f/rlEnd calls since
\* the previous flush, a flush submits as many vertices as were emitted,
\* partitioned over the draws in the order the calls were opened.
C2_Original ==
    \A i \in 1..Len(gl) : gl[i].plain => SubmitsAllEmitted(gl[i])

\* C2 amended: the same, for the flushes at which every RL_QUADS call of
\* the ledger holds a multiple of 4 vertices (an RL_QUADS call is drawn with
\* vertexCount/4*6 indices, so the vertices of an unfinished quad are not
\* drawn).
C2_SubmitsEmitted ==
    \A i \in 1..Len(gl) :
        (gl[i].plain /\ QuadsComplete(gl[i])) => SubmitsAllEmitted(gl[i])

\* C2 witness: a flush asked for after rlBegin/rlVertex3f/rlEnd calls only,
\* with two lines followed by a quad in the ledger.
C2_Witness ==
    /\ call.op = "rlDrawRenderBatchActive"
    /\ Len(gl) = 1
    /\ gl[1].plain
    /\ gl[1].emitted = <<RL_LINES, RL_LINES, RL_QUADS, RL_QUADS, RL_QUADS, RL_QUADS>>
    /\ Len(gl[1].draws) = 2

\* C3: a run of complete quads under one texture, more than the buffer holds
\* and at most twice as many, is flushed exactly once before the closing
\* flush, and the two flushes together submit every vertex of the run once.
C3_OneForcedFlush ==
    (/\ quadRun.closed
     /\ quadRun.emitted % 4 = 0
     /\ quadRun.emitted > Limit
     /\ quadRun.emitted <= 2 * Limit)
    => (quadRun.forced = 1 /\ quadRun.submitted = quadRun.emitted)

\* C3 witness: a closed run of twice the buffer's capacity.
C3_Witness ==
    /\ quadRun.closed
    /\ quadRun.emitted = 2 * Limit
    /\ quadRun.forced = 1
    /\ call.op = "rlDrawRenderBatchActive"
    /\ gl[1].upload = Limit

AllAtBoundary(f) ==
    \A i \in 1..Len(f.ledger) : AtBoundary(f.ledger[i])

\* C4 as stated: at every flush every ledger entry holds complete
\* primitives of its mode.
C4_Original ==
    \A i \in 1..Len(gl) : AllAtBoundary(gl[i])

\* C4 amended: at every flush every ledger entry holds complete primitives
\* of its mode, provided the client closed no call (rlBegin with another
\* mode, rlSetTexture with another texture) and asked for no flush
\* (rlSetTexture(0) on a full buffer, rlCheckRenderBatchLimit,
\* rlDrawRenderBatchActive, rlSetRenderBatchActive) inside a primitive since
\* the previous flush.
C4_CompletePrimitives ==
    \A i \in 1..Len(gl) : ~gl[i].offBoundary => AllAtBoundary(gl[i])

\* C4 witness: a flush forced by rlVertex3f with a line and a triangle in
\* the ledger.
C4_Witness ==
    /\ call.op = "rlVertex3f"
    /\ Len(gl) = 1
    /\ ~gl[1].offBoundary
    /\ Len(gl[1].ledger) = 2
    /\ gl[1].ledger[1].mode = RL_LINES /\ gl[1].ledger[1].vertexCount = 2
    /\ gl[1].ledger[2].mode = RL_TRIANGLES /\ gl[1].ledger[2].vertexCount = 3

\* C5: a flush made by rlVertex3f finds the open draw call at a primitive
\* boundary of its mode, so the flush submits whole primitives of it only.
C5_ForcedFlushAtBoundary ==
    call.op = "rlVertex3f" =>
        \A i \in 1..Len(gl) : AtBoundary(gl[i].ledger[Len(gl[i].ledger)])

\* C5 witness: rlVertex3f flushed an open RL_TRIANGLES call of two triangles.
C5_Witness ==
    /\ call.op = "rlVertex3f"
    /\ Len(gl) = 1
    /\ gl[1].ledger[Len(gl[1].ledger)].mode = RL_TRIANGLES
    /\ gl[1].ledger[Len(gl[1].ledger)].vertexCount = 6

\* The call about to be made closes the open draw call: rlBegin with
\* another mode, or rlSetTexture with another texture id (not 0), while the
\* open call holds vertices.
BeginCloses ==
    /\ call'.op = "rlBegin"
    /\ Open.mode # call'.arg
    /\ Open.vertexCount > 0

SetTextureCloses ==
    /\ call'.op = "rlSetTexture"
    /\ call'.arg # 0
    /\ Open.textureId # call'.arg
    /\ Open.vertexCount > 0

\* C6 as stated, for two rlSetTexture calls with nothing between them: the
\* ledger then holds an entry with the first id before an entry with the
\* second id.
C6_Original ==
    [][ (/\ call.op = "rlSetTexture"
         /\ call'.op = "rlSetTexture"
         /\ call.arg # call'.arg)
        => \E i \in 0..(DrawCounter' - 1) : \E j \in (i + 1)..(DrawCounter' - 1) :
              /\ Ledger'[i].textureId = call.arg
              /\ Ledger'[j].textureId = call'.arg ]_vars

\* C6 amended: rlSetTexture(b), b not 0, called while the open call has
\* another texture a and holds vertices, never merges the two: either the
\* call of a stays in the ledger with its vertices and the next entry, with
\* texture b and no vertex, is opened after it, or the call of a is
\* submitted with texture a by a flush made inside rlSetTexture and the open
\* call of the emptied ledger gets texture b.
C6_TexturesNotMerged ==
    [][ SetTextureCloses =>
          /\ Open'.textureId = call'.arg
          /\ Open'.vertexCount = 0
          /\ \/ /\ gl' = <<>>
                /\ DrawCounter' = DrawCounter + 1
                /\ Ledger'[DrawCounter - 1].textureId = Open.textureId
                /\ Ledger'[DrawCounter - 1].vertexCount = Open.vertexCount
             \/ /\ Len(gl') = 1
                /\ DrawCounter' = 1
                /\ gl'[1].upload >= vertexCounter
                /\ gl'[1].ledger[DrawCounter].textureId = Open.textureId
                /\ gl'[1].ledger[DrawCounter].vertexCount = Open.vertexCount
                /\ gl'[1].draws[DrawCounter].textureId = Open.textureId ]_vars

\* C6 witness: rlSetTexture(2) closed a call of texture 1 holding vertices;
\* the ledger holds the two entries in call order.
C6_Witness ==
    /\ call.op = "rlSetTexture"
    /\ call.arg = 2
    /\ gl = <<>>
    /\ DrawCounter = 2
    /\ Ledger[0].textureId = 1 /\ Ledger[0].vertexCount > 0
    /\ Ledger[1].textureId = 2 /\ Ledger[1].vertexCount = 0

\* C7: whenever rlBegin or rlSetTexture closes a draw call holding vertices,
\* whatever its mode and count, the next draw call starts at a vertex offset
\* that is a multiple of 4.
C7_NextCallAligned ==
    [][ (BeginCloses \/ SetTextureCloses) => vertexCounter' % 4 = 0 ]_vars

\* The alignment C8 states for a closed call of the given mode and count.
StatedAlignment(mode, v) ==
    CASE mode = RL_QUADS -> 0
      [] mode = RL_LINES -> IF v < 4 THEN v ELSE v % 4
      [] mode = RL_TRIANGLES -> IF v < 4 THEN 1 ELSE 4 - (v % 4)

\* C8: when rlBegin or rlSetTexture closes a call of v vertices, the
\* vertexAlignment stored in its ledger slot is 0 for RL_QUADS, v or v mod 4
\* for RL_LINES (v < 4 or not), 1 or 4 - v mod 4 for RL_TRIANGLES (v < 4 or
\* not), the same from both functions.
C8_StoredAlignment ==
    [][ (BeginCloses \/ SetTextureCloses) =>
          Ledger'[DrawCounter - 1].vertexAlignment
             = StatedAlignment(Open.mode, Open.vertexCount) ]_vars

\* C8 witness: rlSetTexture closed an RL_TRIANGLES call of 6 vertices and
\* stored alignment 2 in its slot (the limit check then flushed the call).
C8_Witness ==
    /\ call.op = "rlSetTexture"
    /\ Len(gl) = 1
    /\ gl[1].ledger[1].mode = RL_TRIANGLES
    /\ gl[1].ledger[1].vertexCount = 6
    /\ gl[1].ledger[1].vertexAlignment = 2
    /\ Ledger[0].vertexAlignment = 2

\* What C9 states about rlCheckRenderBatchLimit(n) apart from the
\* comparison: it flushes exactly when it returns true, and changes nothing
\* when it returns false.
CheckFlushesIffTrue ==
    /\ call'.ret <=> (gl' # <<>>)
    /\ call'.ret => (Len(gl') = 1 /\ gl'[1].upload = vertexCounter /\ vertexCounter' = 0)
    /\ ~call'.ret => UNCHANGED <<vertexCounter, currentBatch, batch>>

\* C9 as stated: rlCheckRenderBatchLimit(n) returns true exactly when
\* cursor + n is greater than 4*elementCount.
C9_Original ==
    [][ call'.op = "rlCheckRenderBatchLimit" =>
          /\ call'.ret <=> (vertexCounter + call'.arg > Limit)
          /\ CheckFlushesIffTrue ]_vars

\* C9 amended: rlCheckRenderBatchLimit(n) returns true exactly when
\* cursor + n is greater than or equal to 4*elementCount; it flushes
\* exactly when it returns true and changes no state when it returns false.
C9_CheckLimit ==
    [][ call'.op = "rlCheckRenderBatchLimit" =>
          /\ call'.ret <=> (vertexCounter + call'.arg >= Limit)
          /\ CheckFlushesIffTrue ]_vars

\* C9 witness: rlCheckRenderBatchLimit(n) returned true and flushed with
\* cursor + n equal to the limit.
C9_Witness ==
    /\ call.op = "rlCheckRenderBatchLimit"
    /\ call.ret
    /\ Len(gl) = 1
    /\ gl[1].upload + call.arg = Limit
    /\ gl[1].upload > 0

\* C10: rlSetRenderBatchActive(b) first flushes the batch that was active,
\* all its pending vertices and every entry of its ledger, and then makes b
\* active, the default batch when b is null; nothing is pending afterwards.
C10_FlushThenSwitch ==
    [][ call'.op = "rlSetRenderBatchActive" =>
          /\ Len(gl') = 1
          /\ gl'[1].batch = currentBatch
          /\ gl'[1].upload = vertexCounter
          /\ gl'[1].emitted = pending
          /\ gl'[1].ledger = [i \in 1..DrawCounter |-> Ledger[i - 1]]
          /\ vertexCounter > 0 => Len(gl'[1].draws) = DrawCounter
          /\ batch'[currentBatch].drawCounter = 1
          /\ vertexCounter' = 0
          /\ pending' = <<>>
          /\ currentBatch' = IF call'.arg = NullBatch THEN DefaultBatch ELSE call'.arg ]_vars

\* C10 witness: rlSetRenderBatchActive(null) flushed the vertices pending in
\* the client's batch and made the default batch active.
C10_Witness ==
    /\ call.op = "rlSetRenderBatchActive"
    /\ call.arg = NullBatch
    /\ currentBatch = DefaultBatch
    /\ Len(gl) = 1
    /\ gl[1].batch = ClientBatch
    /\ gl[1].upload > 0

\* C11: a vertex is submitted with the shader that was current when it was
\* emitted: the pending vertices were all emitted under the current shader,
\* every flush uses the shader its vertices were emitted under, and
\* rlSetShader with another id leaves nothing pending and the new id
\* current, the vertices it flushed having gone out with the old id.
C11_FlushBeforeShaderSwap ==
    /\ \A p \in under : p[1] = currentShaderId
    /\ \A i \in 1..Len(gl) :
          /\ \A p \in gl[i].under : p[1] = gl[i].shader
          /\ (gl[i].emitted # <<>>) <=> (gl[i].under # {})
    /\ (call.op = "rlSetShader" /\ gl # <<>>) =>
          /\ Len(gl) = 1
          /\ gl[1].shader # call.arg
          /\ vertexCounter = 0
          /\ pending = <<>>
          /\ currentShaderId = call.arg

\* C11 witness: rlSetShader(3) flushed a quad emitted under shader 2.
C11_Witness ==
    /\ call.op = "rlSetShader"
    /\ call.arg = 3
    /\ Len(gl) = 1
    /\ gl[1].shader = 2
    /\ gl[1].emitted = <<RL_QUADS, RL_QUADS, RL_QUADS, RL_QUADS>>
    /\ Len(gl[1].draws) = 1
    /\ currentShaderId = 3

\* Two consecutive rlSetShader calls with different ids, no vertex pending
\* at either of them.
TwoShaderSwapsNoVertex ==
    /\ call.op = "rlSetShader"
    /\ call'.op = "rlSetShader"
    /\ call.arg # call'.arg
    /\ \A i \in 1..Len(gl) : gl[i].upload = 0
    /\ vertexCounter = 0

\* C19 as stated: the second of two such calls makes no flush and leaves
\* its id as the current shader.
C19_Original ==
    [][ TwoShaderSwapsNoVertex => (gl' = <<>> /\ currentShaderId' = call'.arg) ]_vars

\* C19 amended: the second of two such calls submits nothing to the backend
\* (no buffer upload, no draw) and leaves its id as the current shader; it
\* still runs rlDrawRenderBatch once, which resets the ledger to one empty
\* RL_QUADS call with the default texture, resets the depth and advances
\* currentBuffer.
C19_EmptyFlushThenSwap ==
    [][ TwoShaderSwapsNoVertex =>
          /\ currentShaderId' = call'.arg
          /\ Len(gl') = 1
          /\ gl'[1].upload = 0
          /\ gl'[1].draws = <<>>
          /\ vertexCounter' = 0
          /\ DrawCounter' = 1
          /\ Open' = [Open EXCEPT !.mode = RL_QUADS, !.vertexCount = 0,
                                  !.textureId = defaultTextureId]
          /\ batch'[currentBatch].currentDepth = DepthBaseline
          /\ batch'[currentBatch].currentBuffer = NextBuffer(batch[currentBatch]) ]_vars

\* C19 witness: rlSetShader(3) called with shader 2 current and nothing
\* pending, as after rlSetShader(2) in a fresh renderer.
C19_Witness ==
    /\ call.op = "rlSetShader"
    /\ call.arg = 3
    /\ Len(gl) = 1
    /\ gl[1].shader = 2
    /\ gl[1].upload = 0
    /\ gl[1].draws = <<>>
    /\ currentShaderId = 3

\* C12: every change of the backend's blend state is preceded by a flush:
\* the pending vertices were all emitted under the blend state now set,
\* every flush draws under the blend state its vertices were emitted under,
\* and a switching rlSetBlendMode leaves nothing pending; rlSetBlendMode
\* with the current mode, unmodified, makes no flush and changes no state.
C12_FlushBeforeBlendChange ==
    [][ /\ (\A p \in under : p[2] = blend.gpu)'
        /\ (\A i \in 1..Len(gl) : \A p \in gl[i].under : p[2] = gl[i].blend)'
        /\ (blend'.gpu # blend.gpu) =>
              /\ call'.op = "rlSetBlendMode"
              /\ Len(gl') = 1
              /\ gl'[1].upload = vertexCounter
              /\ gl'[1].emitted = pending
              /\ gl'[1].blend = blend.gpu
              /\ vertexCounter' = 0
              /\ pending' = <<>>
        /\ (call'.op = "rlSetBlendMode" /\ BlendSwitches(blend, call'.arg)) =>
              /\ Len(gl') = 1
              /\ gl'[1].upload = vertexCounter
              /\ gl'[1].blend = blend.gpu
              /\ blend'.gpu = BlendState(blend, call'.arg)
              /\ blend'.currentBlendMode = call'.arg
        /\ (/\ call'.op = "rlSetBlendMode"
            /\ call'.arg = blend.currentBlendMode
            /\ ~blend.pfCustomBlendModeModified) =>
              /\ gl' = <<>>
              /\ UNCHANGED <<vertexCounter, currentBatch, batch, pending,
                             currentShaderId, blend, under>> ]_vars

\* C12 witness: rlSetBlendMode(RL_BLEND_CUSTOM), called in custom mode after
\* rlSetBlendFactors changed the factors, flushed a quad under the old
\* factors and set the new ones.
C12_Witness ==
    /\ call.op = "rlSetBlendMode"
    /\ call.arg = RL_BLEND_CUSTOM
    /\ Len(gl) = 1
    /\ gl[1].emitted = <<RL_QUADS, RL_QUADS, RL_QUADS, RL_QUADS>>
    /\ gl[1].blend.func = <<PF_ZERO, PF_ONE>>
    /\ gl[1].under = {<<defaultShaderId, gl[1].blend>>}
    /\ blend.gpu.func = <<PF_ONE, PF_ZERO>>

\* The matrix state of the program, without the observers.
MatrixState == [matrix EXCEPT !.before = NoPush, !.ops = 0]

\* C13: rlPushMatrix on a full stack (RL_MAX_MATRIX_STACK_SIZE entries) is a
\* no-op: the matrix state is left as it was and nothing is stored outside
\* the stack array.
C13_PushOnFullStackIsNoOp ==
    [][(call'.op = "rlPushMatrix" /\ matrix.stackCounter = RL_MAX_MATRIX_STACK_SIZE)
          => (MatrixState' = MatrixState /\ ~matrix'.overflow)]_vars

\* C14: rlPopMatrix on an empty stack is a no-op: the counter stays 0 and the
\* current matrix, the selection of the current matrix and the
\* transformRequired flag are unchanged.
C14_PopOnEmptyStackIsNoOp ==
    [][(call'.op = "rlPopMatrix" /\ matrix.stackCounter = 0)
          => MatrixState' = MatrixState]_vars

\* C15: after rlPushMatrix immediately followed by rlPopMatrix the current
\* matrix, the one the next transformation call modifies, is the matrix that
\* was current before the push.
C15_PushPopRoundTrip ==
    matrix.before.state = "popped" => Current(matrix) = matrix.before.value

\* A matrix applied to a homogeneous point, and four independent points.
Apply(m, v) ==
    [r \in 1..4 |-> m[r - 1] * v[1] + m[4 + r - 1] * v[2] + m[8 + r - 1] * v[3]
                      + m[12 + r - 1] * v[4]]

Probes == { <<1, 0, 0, 1>>, <<0, 1, 0, 1>>, <<0, 0, 1, 1>>, <<0, 0, 0, 1>> }

\* What each transformation does to a point by itself.
Moved(c, v) ==
    CASE c.op = "rlTranslatef"  -> <<v[1] + c.arg * v[4], v[2], v[3], v[4]>>
      [] c.op = "rlRotatef"     -> <<0 - v[2], v[1], v[3], v[4]>>
      [] c.op = "rlScalef"      -> <<c.arg * v[1], c.arg * v[2], c.arg * v[3], v[4]>>
      [] c.op = "rlMultMatrixf" -> <<v[1] + v[2], v[2], v[3], v[4]>>
      [] c.op = "rlFrustum"     -> Apply(MatFrustum(0 - 1, 1, 0 - 1, 1, 1, 3), v)
      [] c.op = "rlOrtho"       -> Apply(MatOrtho(0, 2, 0, 2, 0 - 1, 1), v)
      [] OTHER                  -> v

\* C16: rlTranslatef, rlRotatef, rlScalef and rlMultMatrixf pre-multiply: the
\* new transformation acts on a point first and the previous current matrix
\* after it.  rlFrustum and rlOrtho combine the other way round: the
\* previous current matrix acts first.  No call changes which matrix is
\* current.
C16_MultiplicationOrder ==
    [][/\ (call'.op \in {"rlTranslatef", "rlRotatef", "rlScalef", "rlMultMatrixf"}
            /\ matrix'.ops = matrix.ops + 1)
           => \A v \in Probes :
                 Apply(Current(matrix'), v) = Apply(Current(matrix), Moved(call', v))
       /\ (call'.op \in {"rlFrustum", "rlOrtho"} /\ matrix'.ops = matrix.ops + 1)
           => \A v \in Probes :
                 Apply(Current(matrix'), v) = Moved(call', Apply(Current(matrix), v))
       /\ matrix'.ops = matrix.ops + 1 => matrix'.currentMatrix = matrix.currentMatrix]_vars

\* rlTranslatef(t, 0, 0) and then rlScalef(s, s, s) on the identity
\* transform: a vertex v is stored as s*v + t.
C16_Witness ==
    /\ call.op = "rlScalef"
    /\ matrix.ops = 2
    /\ matrix.transformRequired
    /\ \E t \in 1..MaxFactor :
          \A v \in { <<1, 0, 0>>, <<0, 1, 0>>, <<0, 0, 1>>, <<1, 1, 1>> } :
             TransformVertex(matrix, v)
                = <<call.arg * v[1] + t, call.arg * v[2], call.arg * v[3]>>

\* The calls whose last act is rlDrawRenderBatch.
EndsWithFlush(c) == c.op \in {"rlDrawRenderBatchActive", "rlSetRenderBatchActive"}

\* The bookkeeping of batch b as rlDrawRenderBatch leaves it when it
\* started on buffer previous.
ResetAfterFlush(b, previous) ==
    /\ vertexCounter = 0
    /\ batch[b].currentDepth = DepthBaseline
    /\ batch[b].drawCounter = 1
    /\ batch[b].draws[0].vertexCount = 0
    /\ batch[b].draws[0].textureId = defaultTextureId
    /\ batch[b].currentBuffer = (previous + 1) % batch[b].bufferCount

\* C17: right after rlDrawRenderBatch the vertex cursor is 0, currentDepth
\* is the baseline, the ledger holds one open call (drawCounter 1) with
\* vertexCount 0 and the default texture, and currentBuffer is its previous
\* value plus 1 modulo bufferCount.
C17_StateAfterFlush ==
    EndsWithFlush(call) => (Len(gl) = 1 /\ ResetAfterFlush(gl[1].batch, gl[1].buffer))

\* C17 witness: the client's batch flushed from its second buffer with two
\* ledger entries, the last one with a texture of the client.
C17_Witness ==
    /\ call.op = "rlDrawRenderBatchActive"
    /\ gl[1].batch = ClientBatch
    /\ gl[1].buffer = ClientBuffers - 1
    /\ gl[1].upload > 0
    /\ Len(gl[1].ledger) = 2
    /\ gl[1].ledger[2].textureId # defaultTextureId
    /\ batch[ClientBatch].currentBuffer = 0

\* C18: a flush made while the vertex cursor is 0 uploads nothing and
\* issues no draw, and still resets the bookkeeping: ledger, depth and
\* buffer rotation.
C18_EmptyFlushResets ==
    [][(EndsWithFlush(call') /\ vertexCounter = 0)
          => /\ Len(gl') = 1
             /\ gl'[1].upload = 0
             /\ gl'[1].draws = <<>>
             /\ gl'[1].batch = currentBatch
             /\ gl'[1].buffer = batch[currentBatch].currentBuffer
             /\ (\A i \in 0..(RL_DEFAULT_BATCH_DRAWCALLS - 1) :
                    /\ batch'[currentBatch].draws[i].mode = RL_QUADS
                    /\ batch'[currentBatch].draws[i].vertexCount = 0
                    /\ batch'[currentBatch].draws[i].textureId = defaultTextureId)
             /\ ResetAfterFlush(gl[1].batch, gl[1].buffer)']_vars

\* C18 witness: an empty flush of the client's batch whose open call had a
\* texture of the client; the batch moved on to its second buffer.
C18_Witness ==
    /\ call.op = "rlDrawRenderBatchActive"
    /\ gl[1].upload = 0
    /\ gl[1].batch = ClientBatch
    /\ gl[1].ledger[1].textureId # defaultTextureId
    /\ gl[1].buffer = 0
    /\ batch[ClientBatch].currentBuffer = 1
    /\ Open.textureId = defaultTextureId

RECURSIVE LedgerVertices(_)
LedgerVertices(ledger) ==
    IF ledger = <<>> THEN 0
    ELSE Head(ledger).vertexCount + LedgerVertices(Tail(ledger))

\* C20: a full ledger is flushed, it is not an error: drawCounter stays
\* between 1 and RL_DEFAULT_BATCH_DRAWCALLS, a flush reads no ledger slot
\* outside the array, every pending vertex is counted in a ledger entry, and
\* a flush made by rlBegin or rlSetTexture uploads every vertex emitted
\* before it and holds it in its ledger (and draws it, when the RL_QUADS
\* calls hold whole quads).
C20_LedgerOverflowFlushes ==
    /\ DrawCounter \in 1..RL_DEFAULT_BATCH_DRAWCALLS
    /\ LedgerVertices([i \in 1..DrawCounter |-> Ledger[i - 1]]) = Len(pending)
    /\ \A i \in 1..Len(gl) :
          /\ Len(gl[i].ledger) \in 1..RL_DEFAULT_BATCH_DRAWCALLS
          /\ call.op \in {"rlBegin", "rlSetTexture"}
                => /\ LedgerVertices(gl[i].ledger) = Len(gl[i].emitted)
                   /\ gl[i].upload >= Len(gl[i].emitted)
                   /\ QuadsComplete(gl[i]) => DrawnVertices(gl[i].draws) = Len(gl[i].emitted)

\* C20 witness: rlBegin or rlSetTexture filled the ledger and flushed it,
\* with vertices in it.
C20_Witness ==
    /\ call.op \in {"rlBegin", "rlSetTexture"}
    /\ Len(gl) = 1
    /\ Len(gl[1].ledger) = RL_DEFAULT_BATCH_DRAWCALLS
    /\ Len(gl[1].emitted) > 0
    /\ DrawCounter = 1

\* The step is a call rlSetTexture(0).
SetTextureZero == call'.op = "rlSetTexture" /\ call'.arg = 0

LedgerSlots == 0..(RL_DEFAULT_BATCH_DRAWCALLS - 1)

\* C21 as stated: rlSetTexture(0) never opens a draw call and never changes
\* the textureId of a ledger entry; it flushes when the cursor has reached
\* the capacity of the buffer and otherwise leaves the batch state unchanged.
C21_Original ==
    [][SetTextureZero =>
          /\ DrawCounter' <= DrawCounter
          /\ \A i \in LedgerSlots : Ledger'[i].textureId = Ledger[i].textureId
          /\ (gl' # <<>>) <=> (vertexCounter >= Limit)
          /\ (gl' = <<>>) => (batch' = batch /\ vertexCounter' = vertexCounter)]_vars

\* C21 amended: rlSetTexture(0) never opens a draw call and never stores its
\* id in the ledger.  When the cursor has reached the capacity of the
\* buffer it flushes, and the flush resets every ledger entry to the default
\* texture; otherwise the batch state is unchanged.
C21_SetTextureZero ==
    [][SetTextureZero =>
          /\ DrawCounter' <= DrawCounter
          /\ (gl' # <<>>) <=> (vertexCounter >= Limit)
          /\ (gl' = <<>>) => (batch' = batch /\ vertexCounter' = vertexCounter)
          /\ (gl' # <<>>) =>
                /\ Len(gl') = 1
                /\ gl'[1].upload = vertexCounter
                /\ gl'[1].ledger = [i \in 1..DrawCounter |-> Ledger[i - 1]]
                /\ vertexCounter' = 0
                /\ DrawCounter' = 1
                /\ \A i \in LedgerSlots : Ledger'[i].textureId = defaultTextureId]_vars

\* C21 witness: rlSetTexture(0) with a full buffer whose open call had a
\* texture of the client; the open call is back on the default texture.
C21_Witness ==
    /\ call.op = "rlSetTexture"
    /\ call.arg = 0
    /\ Len(gl) = 1
    /\ gl[1].upload = Limit
    /\ gl[1].ledger[Len(gl[1].ledger)].textureId # defaultTextureId
    /\ Open.textureId = defaultTextureId

\* C22: after rlBegin(m) with m different from the mode of the open call,
\* the open call has mode m, no vertex and the default texture, whatever
\* texture was set before.
C22_BeginOpensDefault ==
    [][(call'.op = "rlBegin" /\ Open.mode # call'.arg)
          => /\ Open'.mode = call'.arg
             /\ Open'.vertexCount = 0
             /\ Open'.textureId = defaultTextureId]_vars

\* C22 witness: rlBegin closed a call that held vertices under a texture of
\* the client; the call it opened has the default texture.
C22_Witness ==
    /\ call.op = "rlBegin"
    /\ gl = <<>>
    /\ DrawCounter >= 2
    /\ Ledger[DrawCounter - 2].textureId # defaultTextureId
    /\ Ledger[DrawCounter - 2].vertexCount > 0
    /\ Ledger[DrawCounter - 2].mode # Open.mode
    /\ Open.mode = call.arg
    /\ Open.vertexCount = 0
    /\ Open.textureId = defaultTextureId

\* A run of whole quads emitted into an empty batch, not yet flushed by the
\* client.
WholeQuadsRun ==
    quadRun.valid /\ ~quadRun.closed /\ quadRun.emitted % 4 = 0

\* C23 as stated: after V vertices (a multiple of 4) of quads emitted into an
\* empty batch whose buffer holds Limit vertices, the cursor is V mod Limit.
C23_Original ==
    WholeQuadsRun => vertexCounter = quadRun.emitted % Limit

\* C23 amended: the cursor is V mod Limit, except that it is Limit when V is
\* a positive multiple of Limit: the full buffer is flushed by the next
\* vertex, not by the one that filled it.
C23_CursorAfterQuads ==
    WholeQuadsRun =>
        vertexCounter = IF quadRun.emitted > 0 /\ quadRun.emitted % Limit = 0
                        THEN Limit
                        ELSE quadRun.emitted % Limit

\* C23 witness: twice the capacity emitted, one forced flush, the cursor at
\* the end of the buffer.
C23_Witness ==
    /\ WholeQuadsRun
    /\ quadRun.emitted = 2 * Limit
    /\ quadRun.forced = 1
    /\ vertexCounter = Limit
    /\ call.op = "rlVertex3f"

\* The step flushed batch b.
Flushed(b) == \E i \in 1..Len(gl') : gl'[i].batch = b

\* C24: currentDepth of a batch starts at the baseline, increases by
\* DepthIncrement on every rlEnd, never decreases in a step that does not
\* flush the batch, and is the baseline after every step that flushes it.
C24_DepthBetweenFlushes ==
    /\ \A b \in DOMAIN batch : batch[b].currentDepth = DepthBaseline
    /\ [][\A b \in DOMAIN batch :
            /\ (call'.op = "rlEnd" /\ b = currentBatch)
                  => batch'[b].currentDepth = batch[b].currentDepth + DepthIncrement
            /\ ~Flushed(b) => batch'[b].currentDepth >= batch[b].currentDepth
            /\ Flushed(b) => batch'[b].currentDepth = DepthBaseline]_vars

\* C24 witness: rlEnd on the client's batch after vertices were emitted
\* into it; its depth is one increment above the baseline.
C24_Witness ==
    /\ call.op = "rlEnd"
    /\ currentBatch = ClientBatch
    /\ vertexCounter > 0
    /\ batch[ClientBatch].currentDepth = DepthBaseline + DepthIncrement

\* The draws of one eye replay the ledger, entry by entry.
ReplaysLedger(draws, ledger) ==
    /\ Len(draws) = Len(ledger)
    /\ \A j \in 1..Len(ledger) :
          /\ draws[j].textureId = ledger[j].textureId
          /\ draws[j].count = IF ledger[j].mode = RL_QUADS
                               THEN (ledger[j].vertexCount \div 4) * 6
                               ELSE ledger[j].vertexCount

\* C25: with stereo rendering enabled a flush uploads the vertices once and
\* draws the whole ledger once for eye 0 and then once for eye 1, each eye
\* under its own projection and the modelview followed by its view offset;
\* after the flush projection and modelview are what they were before it.
C25_StereoFlush ==
    [][(matrix.stereoRender /\ gl' # <<>>) =>
          /\ \A i \in 1..Len(gl') :
                /\ Len(gl'[i].eyes) = 2
                /\ \A k \in 1..2 :
                      /\ gl'[i].eyes[k].eye = k - 1
                      /\ (gl'[i].upload > 0) => ReplaysLedger(gl'[i].eyes[k].draws, gl'[i].ledger)
                      /\ (gl'[i].upload = 0) => gl'[i].eyes[k].draws = <<>>
                      /\ gl'[i].eyes[k].projection = matrix.projectionStereo[k - 1]
                      /\ \A v \in Probes :
                            Apply(gl'[i].eyes[k].modelview, v)
                               = Apply(matrix.viewOffsetStereo[k - 1], Apply(matrix.modelview, v))
                /\ gl'[i].draws = gl'[i].eyes[1].draws \o gl'[i].eyes[2].draws
          /\ matrix'.projection = matrix.projection
          /\ matrix'.modelview = matrix.modelview]_vars

\* C25 witness: a stereo flush of a buffer with vertices, the two eyes under
\* different projections and view offsets, neither being the renderer's own
\* matrices, which are in place after the flush.
C25_Witness ==
    /\ call.op = "rlDrawRenderBatchActive"
    /\ matrix.stereoRender
    /\ gl[1].upload > 0
    /\ Len(gl[1].draws) = 2 * Len(gl[1].ledger)
    /\ gl[1].eyes[1].projection # gl[1].eyes[2].projection
    /\ gl[1].eyes[1].modelview # gl[1].eyes[2].modelview
    /\ matrix.projection # gl[1].eyes[2].projection
    /\ matrix.modelview # gl[1].eyes[2].modelview
    /\ matrix.modelview # rlMatrixIdentity
    /\ matrix.projection # rlMatrixIdentity

\* The position as a homogeneous point.
Point(v) == <<v[1], v[2], v[3], 1>>

\* C26: a rlPopMatrix that empties the stack in modelview mode makes the
\* modelview matrix current and ends the transform session that a
\* rlPushMatrix in modelview mode started; no other call starts or ends one.
\* A vertex emitted in a session is stored multiplied by the transform
\* matrix, a vertex emitted outside of one as it was given.
C26_TransformSession ==
    [][/\ (call'.op = "rlPopMatrix" /\ matrix.stackCounter = 1
            /\ matrix.currentMatrixMode = RL_MODELVIEW)
           => /\ matrix'.stackCounter = 0
              /\ matrix'.currentMatrix = "modelview"
              /\ ~matrix'.transformRequired
       /\ (call'.op = "rlPushMatrix" /\ matrix.currentMatrixMode = RL_MODELVIEW)
           => (matrix'.transformRequired /\ matrix'.currentMatrix = "transform")
       /\ (matrix'.transformRequired # matrix.transformRequired)
           => call'.op \in {"rlPushMatrix", "rlPopMatrix"}
       /\ (call'.op = "rlVertex3f")
           => /\ matrix'.transformRequired = matrix.transformRequired
              /\ matrix.transformRequired
                    => \A r \in 1..3 :
                          matrix'.stored.written[r]
                             = Apply(matrix.transform, Point(matrix'.stored.given))[r]
              /\ ~matrix.transformRequired
                    => matrix'.stored.written = matrix'.stored.given]_vars

\* C26 witness: a vertex emitted after the session ended, stored as given
\* although the transform matrix is not the identity.
C26_Witness ==
    /\ call.op = "rlVertex3f"
    /\ ~matrix.transformRequired
    /\ matrix.stackCounter = 0
    /\ matrix.currentMatrixMode = RL_MODELVIEW
    /\ matrix.currentMatrix = "modelview"
    /\ matrix.transform # rlMatrixIdentity
    /\ matrix.stored.written = matrix.stored.given

\* The last rlLoadShaderCode met a failure: a stage that did not compile or
\* a program that did not link.
LoadFailed(L) ==
    \/ L.last.vsCode = "fails"
    \/ L.last.fsCode = "fails"
    \/ (L.last.linked /\ L.program = 0)

\* What rlLoadShaderCode does in every case, whatever the default shader id.
FallsBackToDefault ==
    call'.op = "rlLoadShaderCode" =>
       /\ shaders'.defaultShaderId = shaders.defaultShaderId
       /\ LoadFailed(shaders') =>
             /\ shaders'.last.id = shaders.defaultShaderId
             /\ shaders'.warnings > 0
             /\ shaders'.programs = shaders.programs
       /\ (shaders'.last.vsCode = "absent" /\ shaders'.last.fsCode = "absent") =>
             /\ shaders'.last.id = shaders.defaultShaderId
             /\ ~shaders'.last.linked
             /\ shaders'.nextProgram = shaders.nextProgram
             /\ shaders'.programs = shaders.programs
       /\ ~LoadFailed(shaders') /\ shaders'.last.linked =>
             /\ shaders'.last.id \in shaders'.programs \ shaders.programs
             /\ shaders'.last.id # 0

ExitKeyWaiting(C) ==
    \E i \in 1..Len(C.events) :
        /\ C.events[i].kind = "keyboard"
        /\ KeyOf(toupper(C.events[i].kbdc)) = C.exitKey

\* C28: a PollInputEvents that reads a keyboard event for the exit key sets
\* the close request, no call clears it, and WindowShouldClose returns the
\* close request while the window is ready and true while it is not: from
\* that poll on every WindowShouldClose returns true.
C28_CloseRequestLatches ==
    [][/\ (call'.op = "PollInputEvents" /\ ExitKeyWaiting(CORE)) => CORE'.shouldClose
       /\ (call'.op = "PollInputEvents" /\ ~ExitKeyWaiting(CORE))
              => CORE'.shouldClose = CORE.shouldClose
       /\ CORE.shouldClose => CORE'.shouldClose
       /\ (call'.op = "WindowShouldClose") =>
              /\ ~CORE.ready => call'.ret
              /\ CORE.shouldClose => call'.ret
              /\ (CORE.ready /\ ~CORE.shouldClose) => ~call'.ret]_vars

\* C28 witness: WindowShouldClose returned true on a ready window after a
\* later poll had found the exit key released.
C28_Witness ==
    /\ call.op = "WindowShouldClose"
    /\ call.ret
    /\ CORE.ready
    /\ CORE.shouldClose
    /\ CORE.currentKeyState[CORE.exitKey] = 0
    /\ CORE.previousKeyState[CORE.exitKey] = 0

\* The vertices the ledger accounts for: every closed entry with its
\* alignment, and the open entry.
RECURSIVE ClosedVertices(_, _)
ClosedVertices(draws, n) ==
    IF n = 0 THEN 0
    ELSE ClosedVertices(draws, n - 1)
           + draws[n - 1].vertexCount + draws[n - 1].vertexAlignment

LedgerCursor(b) ==
    ClosedVertices(b.draws, b.drawCounter - 1) + b.draws[b.drawCounter - 1].vertexCount

\* C29: the vertex cursor is the sum of vertexCount + vertexAlignment over
\* the closed ledger entries of the active batch plus the vertexCount of its
\* open entry.
C29_CursorMatchesLedger ==
    vertexCounter = LedgerCursor(batch[currentBatch])

\* C29 witness: a closed entry with an alignment and an open entry with
\* vertices.
C29_Witness ==
    /\ batch[currentBatch].drawCounter = 2
    /\ batch[currentBatch].draws[0].vertexAlignment > 0
    /\ batch[currentBatch].draws[1].vertexCount > 1
    /\ vertexCounter = LedgerCursor(batch[currentBatch])
    /\ vertexCounter > batch[currentBatch].draws[0].vertexCount
                          + batch[currentBatch].draws[1].vertexCount

\* The vertices the entries before entry i of a flushed ledger account for.
RECURSIVE OffsetBefore(_, _)
OffsetBefore(ledger, i) ==
    IF i = 1 THEN 0
    ELSE OffsetBefore(ledger, i - 1)
           + ledger[i - 1].vertexCount + ledger[i - 1].vertexAlignment

\* The draw a flush issues for entry i of its ledger.
DrawnAtOffset(f, i) ==
    LET entry == f.ledger[i]
        offset == OffsetBefore(f.ledger, i)
    IN IF entry.mode = RL_QUADS
       THEN /\ f.draws[i].cmd = "pfDrawElements"
            /\ f.draws[i].first = (offset \div 4) * 6
            /\ f.draws[i].count = (entry.vertexCount \div 4) * 6
       ELSE /\ f.draws[i].cmd = "pfDrawArrays"
            /\ f.draws[i].first = offset
            /\ f.draws[i].count = entry.vertexCount

\* C30: a flush that draws issues one draw per ledger entry, in order, at
\* the offset summed over the entries before it: indexed with
\* vertexCount/4*6 indices from index offset/4*6 for RL_QUADS, non-indexed
\* with vertexCount vertices from the offset otherwise.  That offset is the
\* cursor at which the first vertex of the entry was written, and closed
\* entries do not change before the flush.
C30_DrawOffsets ==
    [][/\ \A k \in 1..Len(gl') :
             /\ gl'[k].upload > 0 => Len(gl'[k].draws) = Len(gl'[k].ledger)
             /\ \A i \in 1..Len(gl'[k].draws) : DrawnAtOffset(gl'[k], i)
       /\ (call'.op = "rlVertex3f"
           /\ batch'[currentBatch'].draws[batch'[currentBatch'].drawCounter - 1].vertexCount = 1)
             => call'.index = ClosedVertices(batch'[currentBatch'].draws,
                                             batch'[currentBatch'].drawCounter - 1)
       /\ (gl' = <<>> /\ currentBatch' = currentBatch)
             => /\ batch'[currentBatch].drawCounter >= batch[currentBatch].drawCounter
                /\ \A i \in 0..(batch[currentBatch].drawCounter - 2) :
                      batch'[currentBatch].draws[i] = batch[currentBatch].draws[i]]_vars

\* C30 witness: a flush drew a non-indexed entry and then a RL_QUADS entry
\* from an index offset past the start of the index buffer.
C30_Witness ==
    /\ gl # <<>>
    /\ Len(gl[1].draws) = 2
    /\ gl[1].draws[1].cmd = "pfDrawArrays"
    /\ gl[1].draws[1].count > 0
    /\ gl[1].draws[2].cmd = "pfDrawElements"
    /\ gl[1].draws[2].first > 0
    /\ gl[1].draws[2].count > 0

\* The vertices the indices first .. first + count - 1 of the index buffer
\* address.
IndexedVertices(first, count) == { Indices(j) : j \in first..(first + count - 1) }

\* Every entry before entry i of a ledger holds whole primitives.
WholeBefore(ledger, i) == \A j \in 1..(i - 1) : AtBoundary(ledger[j])

\* C31: when every entry before it holds whole primitives, a ledger entry
\* starts at a vertex offset that is a multiple of 4, in the ledger of the
\* active batch after every call and in the ledger of every flush; a
\* RL_QUADS entry of whole quads is then drawn with the indices that address
\* exactly its own vertices.
C31_WholePrimitivesAligned ==
    [][/\ \A i \in 1..batch'[currentBatch'].drawCounter :
             WholeBefore([n \in 1..batch'[currentBatch'].drawCounter |->
                             batch'[currentBatch'].draws[n - 1]], i)
                => ClosedVertices(batch'[currentBatch'].draws, i - 1) % 4 = 0
       /\ \A k \in 1..Len(gl') : \A i \in 1..Len(gl'[k].draws) :
             WholeBefore(gl'[k].ledger, i) =>
                /\ OffsetBefore(gl'[k].ledger, i) % 4 = 0
                /\ (gl'[k].ledger[i].mode = RL_QUADS /\ AtBoundary(gl'[k].ledger[i])) =>
                      IndexedVertices(gl'[k].draws[i].first, gl'[k].draws[i].count)
                         = { OffsetBefore(gl'[k].ledger, i) + v :
                                v \in 0..(gl'[k].ledger[i].vertexCount - 1) }]_vars

\* C31 witness: a flush drew one triangle and then one quad, the quad from
\* the vertices 4 to 7.
C31_Witness ==
    /\ gl # <<>>
    /\ Len(gl[1].draws) = 2
    /\ gl[1].ledger[1].mode = RL_TRIANGLES
    /\ gl[1].ledger[1].vertexCount = 3
    /\ gl[1].ledger[2].mode = RL_QUADS
    /\ gl[1].ledger[2].vertexCount = 4
    /\ IndexedVertices(gl[1].draws[2].first, gl[1].draws[2].count) = 4..7

\* C32: when rlSetTexture(id), id not 0 and not the texture of the open
\* call, opens a new ledger entry while the open call has mode m and holds
\* vertices, the new entry has mode m.
C32_NewEntryKeepsMode ==
    [][(SetTextureCloses /\ gl' = <<>>
        /\ batch'[currentBatch'].drawCounter = batch[currentBatch].drawCounter + 1)
          => batch'[currentBatch'].draws[batch'[currentBatch'].drawCounter - 1].mode
                = Open.mode]_vars

\* The open entry of the active batch after the step.
OpenAfter == batch'[currentBatch'].draws[batch'[currentBatch'].drawCounter - 1]

\* C33: a flush forced by rlCheckRenderBatchLimit, called by the client or
\* by rlVertex3f, leaves one ledger entry with the mode and the texture of
\* the entry that was open before it; it holds no vertex after the call of
\* the client and the vertex just emitted after rlVertex3f.
C33_ForcedFlushKeepsOpenCall ==
    [][/\ (call'.op = "rlCheckRenderBatchLimit" /\ call'.ret) =>
             /\ Len(gl') = 1
             /\ batch'[currentBatch'].drawCounter = 1
             /\ OpenAfter.mode = Open.mode
             /\ OpenAfter.textureId = Open.textureId
             /\ OpenAfter.vertexCount = 0
             /\ vertexCounter' = 0
       /\ (call'.op = "rlVertex3f" /\ gl' # <<>>) =>
             /\ batch'[currentBatch'].drawCounter = 1
             /\ OpenAfter.mode = Open.mode
             /\ OpenAfter.textureId = Open.textureId
             /\ OpenAfter.vertexCount = 1
             /\ vertexCounter' = 1]_vars

\* C33 witness: rlCheckRenderBatchLimit flushed lines drawn with a texture
\* of the client, and the open call still has that mode and texture.
C33_Witness ==
    /\ call.op = "rlCheckRenderBatchLimit"
    /\ call.ret
    /\ gl # <<>>
    /\ gl[1].upload > 0
    /\ Open.mode = RL_LINES
    /\ Open.textureId = 2
    /\ Open.vertexCount = 0
    /\ DrawCounter = 1

\* C34: rlDrawRenderBatch on a batch that is not the active one leaves the
\* cursor and the ledger of the active batch unchanged.
C34_OtherBatchFlushKeepsActive ==
    [][(call'.op = "rlDrawRenderBatch" /\ call'.arg # currentBatch) =>
          /\ vertexCounter' = vertexCounter
          /\ batch'[currentBatch] = batch[currentBatch]
          /\ currentBatch' = currentBatch]_vars

\* C35: rlLoadRenderBatch called while the active batch has pending vertices
\* leaves the vertex cursor and the ledger of the active batch unchanged.
C35_LoadKeepsActive ==
    [][call'.op = "rlLoadRenderBatch" =>
          /\ vertexCounter' = vertexCounter
          /\ batch'[currentBatch] = batch[currentBatch]
          /\ currentBatch' = currentBatch]_vars

\* C36: whenever the matrix stack is empty no transform session is active: the
\* transform-required flag is false and the current matrix is the modelview
\* or the projection matrix.
C36_EmptyStackNoSession ==
    (matrix.stackCounter = 0) =>
        /\ ~matrix.transformRequired
        /\ matrix.currentMatrix \in {"modelview", "projection"}

\* C37: however many keyboard events one PollInputEvents reads, the count of
\* the pressed-key queue never exceeds the entries of the queue and no entry
\* is written past its end.
C37_KeyQueueWithinCapacity ==
    /\ CORE.keyPressedQueueCount <= MAX_KEY_PRESSED_QUEUE
    /\ ~CORE.pastEnd

====
